---------------------------- MODULE Spec2Model ----------------------------
(***************************************************************************)
(* Host-side UART tooling of the TM4C1294 PWM controller:                  *)
(*   tools/uart_session.py   capture orchestrator, needle watcher, script  *)
(*                           engine                                        *)
(*   tools/uart_smoketest.py session probing and the command smoke suite   *)
(*                                                                         *)
(* Byte strings and texts are sequences of atoms (strings).                 *)
(***************************************************************************)
EXTENDS Integers, Sequences, FiniteSets, TLC

VARIABLES
    \* _PromptWatch (uart_session.py:38-73)
    pw_buf,        \* self._buf
    pw_count,      \* self._count
    pw_event,      \* self._event
    pw_stream,     \* history: every byte ever passed to feed, in order
    \* a caller inside _PromptWatch.wait_for_next (uart_session.py:64-73)
    w_pc,          \* "idle" | "check" | "waiting" | "clear" | "ret"
    w_last,        \* last_count
    w_left,        \* quanta of 0.25 s left until the deadline
    w_found,       \* the value returned
    w_mark,        \* history: Len(puts) when the wait began
    w_seen,        \* history: the caller went to sleep with the marker captured
    \* uart_session.py main: inputs
    script_text,   \* the script, a sequence of lines
    wait_prompt,   \* --wait-prompt
    \* uart_session.py main: the main thread
    pc,            \* position of the main thread
    steps,         \* the parsed steps
    step_i,        \* 1-based index of the step the loop is at
    last_prompt,
    send_failed,
    ser_open,      \* the send handle of _open_for_send is open
    looped,        \* the demux loop has been through a round
    ret,           \* the value main returns; -1 while running
    \* uart_session.py main: shared with the reader threads
    out_q,         \* queue of [name, data, src]; src is history: who put it
    err_q,
    stop,          \* the stop event
    rd,            \* per channel, position of its _reader_thread
    \* the log files, and what the demux loop has taken from out_q
    logs,          \* per channel, the records written, in order
    consumed,      \* history: the items popped, in order
    puts,          \* history: the items put, in order
    \* the serial ports and the device behind them
    wire,          \* per channel, bytes the device has sent and no read has returned
    diag_n,        \* diagnostic bytes the device has produced so far
    written,       \* history: bytes written to the command channel, in order
    dtr_sets,      \* history: levels the script's dtr steps have set
    executed,      \* history: indexes of the steps begun, in order
    rd_hist,       \* history: per channel, the chunks its reader has read
    portOps,       \* history: the port operations performed, <<who, op, channel>>
    faults,        \* history: transport failures (open, read, write) so far
    \* uart_smoketest.py: the serial ports, the device, the SerialReaders
    dtr,           \* level of the control line of UART3
    dev_mode,      \* the device: "pol_true" | "pol_false" | "mute"
    s_wire,        \* per channel, bytes the device has sent and no read has returned
    r_chunk,       \* per channel, SerialReader._run: chunk read, not yet in _buf
    r_buf,         \* per channel, SerialReader._buf
    r_stop,        \* SerialReader._stop of both readers
    \* uart_smoketest.py: wait_for_text / wait_for_any
    wt,            \* the wait in progress: [kind, ch, needles, ret]
    accum,         \* wait_for_any: accum
    wt_found,      \* the value wait_for_text returned
    out,           \* the value wait_for_any returned
    wt_how,        \* history: the last wait returned by "match" | "timeout"
    wt_drained,    \* history: what drain_text returned to the wait in progress
    \* uart_smoketest.py: connect_session and main
    s_pc,          \* position of the main thread
    phase,         \* connect_session: "diag" | "fallback"
    cand,          \* connect_session: connected_level of the loop
    connected_level, \* main: the level connect_session returned
    established,   \* history: connect_session has returned a level
    cases,         \* main: the case table
    case_i,        \* 1-based index of the case the loop is at
    failures,      \* main: failures
    s_ret,         \* what main returns: "running" | "0" | "1" | "raised"
    results,       \* history: per case run, [name, ok]
    step_obs,      \* history: per disconnect/reconnect step, [name, observed]
    probes,        \* history: <<phase, candidate>> of every probe begun
    dtr_hist,      \* history: the levels set_dtr has set, in order
    s_written,     \* history: the payloads written to UART3, in order
    s_faults,      \* history: write failures so far
    s_silent,      \* history: commands the device has left unanswered
    \* ---- a function of the script language applied on its own ----
    fn_in,         \* the argument: a payload, or a script text
    fn_out         \* the values returned so far, in order

pwVars == <<pw_buf, pw_count, pw_event, pw_stream>>
waitVars == <<w_pc, w_last, w_left, w_found, w_mark, w_seen>>
inputVars == <<script_text, wait_prompt>>
mainVars == <<pc, steps, step_i, last_prompt, send_failed, ser_open, looped,
              ret>>
queueVars == <<out_q, err_q, puts>>
readerVars == <<stop, rd, rd_hist>>
logVars == <<logs, consumed>>
devVars == <<wire, diag_n>>
histVars == <<written, dtr_sets, executed, portOps>>
faultVars == <<faults>>

sessionVars == <<inputVars, mainVars, queueVars, readerVars, logVars, devVars,
                 histVars, faultVars>>

portVars == <<dtr, dev_mode, s_wire, s_written, s_faults, s_silent, dtr_hist>>
srVars == <<r_chunk, r_buf, r_stop>>
wtVars == <<wt, accum, wt_found, out, wt_how, wt_drained>>
csVars == <<phase, cand, connected_level, established, probes>>
suiteVars == <<cases, case_i, failures, s_ret, results, step_obs>>

smokeVars == <<s_pc, portVars, srVars, wtVars, csVars, suiteVars>>

fnVars == <<fn_in, fn_out>>

vars == <<pwVars, waitVars, sessionVars, smokeVars, fnVars>>

\* everything uart_session.py owns
orchVars == <<pwVars, waitVars, sessionVars>>

-----------------------------------------------------------------------------
(* Bounds of the model *)

\* bytes fed to the watcher in one SpecWatch run
MaxStream == 5

\* lines of a script text
MaxLines == 2

\* quanta of 0.25 s in --prompt-timeout
WaitQuanta == 2

\* diagnostic bytes the device produces on UART0 during a run
MaxDiag == 1

\* transport failures (a port that does not open, a read or write that
\* raises) in one run
MaxFaults == 1

\* commands the device leaves unanswered in one smoke run
MaxSilent == 1

-----------------------------------------------------------------------------
(* Byte-string helpers *)

\* Python `n in s` on bytes / str: n occurs as a contiguous slice of s
Contains(n, s) ==
    \E i \in 1..(Len(s) - Len(n) + 1) : SubSeq(s, i, i + Len(n) - 1) = n

\* number of start positions at which n occurs in s
Occurrences(n, s) ==
    Cardinality({i \in 1..(Len(s) - Len(n) + 1) : SubSeq(s, i, i + Len(n) - 1) = n})

\* Python s[-k:]
LastBytes(s, k) ==
    IF Len(s) <= k THEN s ELSE SubSeq(s, Len(s) - k + 1, Len(s))

\* all sequences over S of length 0..n
SeqsUpTo(S, n) == UNION {[1..k -> S] : k \in 0..n}

-----------------------------------------------------------------------------
(* Script language: _decode_escapes, _ensure_trailing_crlf,                 *)
(* _parse_uart3_script.  A script text is a sequence of lines; a line is a  *)
(* sequence of atoms: " " and "#" are single characters, every other atom   *)
(* is a run of characters holding neither.                                  *)

Space == " "
Hash == "#"
CR == "<CR>"
LF == "<LF>"

\* str.lower() on the atoms the model uses
LowerAtom(t) ==
    CASE t = "SEND" -> "send"
      [] t = "Type" -> "type"
      [] t = "SLEEP" -> "sleep"
      [] t = "DTR" -> "dtr"
      [] OTHER -> t

Lower(s) == [i \in 1..Len(s) |-> LowerAtom(s[i])]

\* raw.split("#", 1)[0]
CutComment(raw) ==
    LET hs == {i \in 1..Len(raw) : raw[i] = Hash}
    IN  IF hs = {} THEN raw
        ELSE SubSeq(raw, 1, (CHOOSE i \in hs : \A j \in hs : i <= j) - 1)

RECURSIVE LStrip(_)
LStrip(s) == IF s # <<>> /\ Head(s) = Space THEN LStrip(Tail(s)) ELSE s

RECURSIVE RStrip(_)
RStrip(s) ==
    IF s # <<>> /\ s[Len(s)] = Space THEN RStrip(SubSeq(s, 1, Len(s) - 1)) ELSE s

\* str.strip()
Strip(s) == RStrip(LStrip(s))

\* index of the first space of s, Len(s) + 1 when there is none
FirstSpace(s) ==
    LET sp == {i \in 1..Len(s) : s[i] = Space}
    IN  IF sp = {} THEN Len(s) + 1 ELSE CHOOSE i \in sp : \A j \in sp : i <= j

\* line.split(maxsplit=1): parts[0]
SplitHead(line) == SubSeq(line, 1, FirstSpace(line) - 1)

\* line.split(maxsplit=1): parts[1].strip() if len(parts) > 1 else ""
SplitArg(line) == Strip(SubSeq(line, FirstSpace(line), Len(line)))

\* float(arg): ok with the value in milliseconds, or not ok (ValueError)
FloatOf(arg) ==
    IF Len(arg) # 1 THEN [ok |-> FALSE, ms |-> 0]
    ELSE CASE arg[1] = "0" -> [ok |-> TRUE, ms |-> 0]
           [] arg[1] = "1" -> [ok |-> TRUE, ms |-> 1000]
           [] arg[1] = "0.5" -> [ok |-> TRUE, ms |-> 500]
           [] arg[1] = "-1" -> [ok |-> TRUE, ms |-> -1000]
           [] OTHER -> [ok |-> FALSE, ms |-> 0]

\* ScriptStep(kind, value): value is the text of send/type, the seconds of
\* sleep (here milliseconds), the level of dtr
ScriptStep(k, text, ms, level) ==
    [kind |-> k, text |-> text, ms |-> ms, level |-> level]

\* one line of the loop body of _parse_uart3_script, idx its 1-based number:
\* "skip" (blank or comment), "step", or "error" (numbered: the message
\* carries the line number; float()'s own ValueError does not)
ParseLine(raw, idx) ==
    LET line == Strip(CutComment(raw))
        cmd == Lower(SplitHead(line))
        arg == SplitArg(line)
        Err(n) == [kind |-> "error", line |-> idx, numbered |-> n]
        Step(st) == [kind |-> "step", step |-> st]
    IN  IF line = <<>> THEN [kind |-> "skip"]
        ELSE CASE cmd = <<"send">> -> Step(ScriptStep("send", arg, 0, FALSE))
               [] cmd = <<"type">> ->
                    IF arg = <<>> THEN Err(TRUE)
                    ELSE Step(ScriptStep("type", arg, 0, FALSE))
               [] cmd = <<"sleep">> ->
                    IF arg = <<>> THEN Err(TRUE)
                    ELSE IF ~FloatOf(arg).ok THEN Err(FALSE)
                    ELSE Step(ScriptStep("sleep", <<>>, FloatOf(arg).ms, FALSE))
               [] cmd = <<"dtr">> ->
                    IF arg \notin {<<"0">>, <<"1">>} THEN Err(TRUE)
                    ELSE Step(ScriptStep("dtr", <<>>, 0, arg = <<"1">>))
               [] OTHER -> Err(TRUE)

\* the loop of _parse_uart3_script from line idx on, acc the steps so far
RECURSIVE ParseFrom(_, _, _)
ParseFrom(text, idx, acc) ==
    IF idx > Len(text)
    THEN [ok |-> TRUE, steps |-> acc, line |-> 0, numbered |-> FALSE]
    ELSE LET r == ParseLine(text[idx], idx)
         IN  CASE r.kind = "skip" -> ParseFrom(text, idx + 1, acc)
               [] r.kind = "step" -> ParseFrom(text, idx + 1, Append(acc, r.step))
               [] OTHER -> [ok |-> FALSE, steps |-> <<>>, line |-> r.line,
                            numbered |-> r.numbered]

\* a parser that hands back the steps before the first bad line
ParseScriptPartial(text) ==
    LET bad == {i \in 1..Len(text) : ParseLine(text[i], i).kind = "error"}
        first == IF bad = {} THEN Len(text) + 1
                 ELSE CHOOSE i \in bad : \A j \in bad : i <= j
    IN  ParseFrom(SubSeq(text, 1, first - 1), 1, <<>>)

\* a parser that numbers only the lines holding a command
ParseScriptSkippingBlank(text) ==
    ParseFrom(SelectSeq(text, LAMBDA raw : Strip(CutComment(raw)) # <<>>), 1, <<>>)

\* _parse_uart3_script(text)
ParseScript(text) == ParseFrom(text, 1, <<>>)

\* _decode_escapes: "\r" and "\n" escapes become the bytes CR and LF
DecodeAtom(t) ==
    CASE t = "\\r" -> CR
      [] t = "\\n" -> LF
      [] OTHER -> t

DecodeEscapes(text) == [i \in 1..Len(text) |-> DecodeAtom(text[i])]

\* bytes.endswith
EndsWith(p, suffix) ==
    Len(p) >= Len(suffix) /\ SubSeq(p, Len(p) - Len(suffix) + 1, Len(p)) = suffix

\* a normalisation that only ever appends
EnsureTrailingCrlfAppendOnly(payload) ==
    IF EndsWith(payload, <<CR, LF>>) THEN payload
    ELSE IF EndsWith(payload, <<CR>>) THEN payload \o <<LF>>
    ELSE payload \o <<CR, LF>>

\* _ensure_trailing_crlf(payload)
EnsureTrailingCrlf(payload) ==
    IF payload = <<>> THEN <<CR, LF>>
    ELSE IF EndsWith(payload, <<CR, LF>>) THEN payload
    ELSE IF EndsWith(payload, <<CR>>) THEN payload \o <<LF>>
    ELSE IF EndsWith(payload, <<LF>>) THEN
        IF Len(payload) >= 2 /\ LastBytes(payload, 2) = <<CR, LF>> THEN payload
        ELSE SubSeq(payload, 1, Len(payload) - 1) \o <<CR, LF>>
    ELSE payload \o <<CR, LF>>

-----------------------------------------------------------------------------
(* _PromptWatch *)

\* --prompt-bytes default "> "
PromptNeedle == <<">", " ">>

\* rolling window: trimmed to the last BufKeep bytes once longer than BufCap
BufCap == 4096
BufKeep == 2048

\* the bytes a channel can carry in the model
WatchBytes == {">", " ", "x"}

\* a rolling buffer that is never cut
FeedBufNoTrim(buf, data) == buf \o data

\* feed: self._buf.extend(data); if len > 4096: del self._buf[:-2048]
FeedBuf(buf, data) ==
    LET b == buf \o data
    IN  IF Len(b) > BufCap THEN LastBytes(b, BufKeep) ELSE b

\* feed: `if self._needle in self._buf`
FeedHits(buf) == Contains(PromptNeedle, buf)

\* a feed that counts the match and does not set the event
PwFeedNoSignal(data) ==
    IF data = <<>>
    THEN UNCHANGED <<pw_buf, pw_count, pw_event>>
    ELSE /\ pw_buf' = FeedBuf(pw_buf, data)
         /\ UNCHANGED pw_event
         /\ IF FeedHits(pw_buf')
            THEN pw_count' = pw_count + 1
            ELSE UNCHANGED pw_count

\* _PromptWatch.feed(data)
PwFeed(data) ==
    IF data = <<>>
    THEN UNCHANGED <<pw_buf, pw_count, pw_event>>
    ELSE /\ pw_buf' = FeedBuf(pw_buf, data)
         /\ IF FeedHits(pw_buf')
            THEN pw_count' = pw_count + 1 /\ pw_event' = TRUE
            ELSE UNCHANGED <<pw_count, pw_event>>

PwInit ==
    /\ pw_buf = <<>>
    /\ pw_count = 0
    /\ pw_event = FALSE
    /\ pw_stream = <<>>

\* the bytes the UART3 reader has put on out_q since the put numbered mark
RECURSIVE CapturedSince(_)
CapturedSince(mark) ==
    IF mark >= Len(puts) THEN <<>>
    ELSE LET it == puts[mark + 1]
         IN  (IF it.name = "UART3" /\ it.src = "reader" THEN it.data ELSE <<>>)
             \o CapturedSince(mark + 1)

\* _PromptWatch.wait_for_next is entered with last_count and the timeout
WaitCall(last) ==
    /\ w_pc' = "check"
    /\ w_last' = last
    /\ w_left' = WaitQuanta
    /\ w_found' = FALSE
    /\ w_mark' = Len(puts)
    /\ w_seen' = FALSE

\* wait_for_next, loop head: `if self.count() > last_count: return True`,
\* `if remaining <= 0: return False`
WaitCheck ==
    /\ w_pc = "check"
    /\ IF pw_count > w_last
       THEN w_pc' = "ret" /\ w_found' = TRUE /\ UNCHANGED w_seen
       ELSE IF w_left <= 0
       THEN w_pc' = "ret" /\ w_found' = FALSE /\ UNCHANGED w_seen
       ELSE /\ w_pc' = "waiting"
            /\ w_seen' = (w_seen \/ Contains(PromptNeedle, CapturedSince(w_mark)))
            /\ UNCHANGED w_found
    /\ UNCHANGED <<w_last, w_left, w_mark, pwVars, sessionVars>>
    /\ UNCHANGED <<smokeVars, fnVars>>

\* wait_for_next: self._event.wait(timeout=min(0.25, remaining)) returns,
\* at once when the event is set, else after the quantum
WaitWake ==
    /\ w_pc = "waiting"
    /\ w_pc' = "clear"
    /\ w_left' = IF pw_event THEN w_left ELSE w_left - 1
    /\ UNCHANGED <<w_last, w_found, w_mark, w_seen, pwVars, sessionVars>>
    /\ UNCHANGED <<smokeVars, fnVars>>

\* wait_for_next: self._event.clear()
WaitClear ==
    /\ w_pc = "clear"
    /\ w_pc' = "check"
    /\ pw_event' = FALSE
    /\ UNCHANGED <<w_last, w_left, w_found, w_mark, w_seen, pw_buf, pw_count, pw_stream,
                   sessionVars>>
    /\ UNCHANGED <<smokeVars, fnVars>>

WaitInit ==
    /\ w_pc = "idle"
    /\ w_last = 0
    /\ w_left = 0
    /\ w_found = FALSE
    /\ w_mark = 0
    /\ w_seen = FALSE

-----------------------------------------------------------------------------
(* uart_session.py main: queues, ports, device *)

Channels == {"UART0", "UART3"}

\* an entry of out_q: (name, data); src records who put it
Item(name, data, src) == [name |-> name, data |-> data, src |-> src]

\* the error texts, one atom each
MsgSend == <<"[ERROR sending]">>
MsgOpen == <<"[ERROR opening]">>
MsgRead == <<"[ERROR read]">>
MsgPreflight == <<"[preflight: ERROR opening]">>
MsgScript == <<"[ERROR reading script file]">>

\* script_text is None: the script file could not be read
NoScript == << <<"<None>">> >>

\* The firmware behind the command channel: it answers every received line
\* with its prompt
DevReplyTo(payload) ==
    IF \E i \in 1..Len(payload) : payload[i] \in {CR, LF} THEN PromptNeedle
    ELSE <<>>

\* The diagnostic bytes the firmware prints on UART0, in order
DiagBytes == <<"d1", "d2", "d3", "d4">>

\* the serial library raises in this step
Fault ==
    /\ faults < MaxFaults
    /\ faults' = faults + 1

\* a handler that reports the failure and lets the step loop go on
SendFailureInLoop ==
    /\ send_failed' = TRUE
    /\ out_q' = Append(out_q, Item("UART3", MsgSend, "main"))
    /\ puts' = Append(puts, Item("UART3", MsgSend, "main"))
    /\ ser_open' = ser_open
    /\ pc' = IF pc = "step" THEN "step" ELSE "consume"

\* `except Exception` of the send block (uart_session.py:492-495); the
\* `with` statement has closed the handle if it was open
SendFailure ==
    /\ send_failed' = TRUE
    /\ out_q' = Append(out_q, Item("UART3", MsgSend, "main"))
    /\ puts' = Append(puts, Item("UART3", MsgSend, "main"))
    /\ ser_open' = FALSE
    /\ pc' = "consume"

-----------------------------------------------------------------------------
(* uart_session.py main: preflight, reader start, script execution *)

\* Path(args.uart3_script_file).read_text raises: send_failed is set, the
\* error goes to the sink, script_text stays None (uart_session.py:384-389)
ReadScriptFails ==
    /\ pc = "preflight0"
    /\ script_text # NoScript
    /\ Fault
    /\ script_text' = NoScript
    /\ send_failed' = TRUE
    /\ out_q' = Append(out_q, Item("UART3", MsgScript, "main"))
    /\ puts' = Append(puts, Item("UART3", MsgScript, "main"))
    /\ UNCHANGED <<pc, steps, step_i, last_prompt, ser_open, looped, ret,
                   wait_prompt, err_q, readerVars, logVars, devVars, histVars,
                   pwVars, waitVars>>
    /\ UNCHANGED <<smokeVars, fnVars>>

\* _preflight_port(device, baud, name=ch, pulse_dtr=False) and the caller's
\* `if err:` (uart_session.py:402-416)
PreflightPort(ch) ==
    \/ \* serial.Serial raises: the error string is returned
       /\ Fault
       /\ err_q' = Append(err_q, <<"preflight", ch>>)
       /\ out_q' = Append(out_q, Item(ch, MsgPreflight, "main"))
       /\ puts' = Append(puts, Item(ch, MsgPreflight, "main"))
       /\ portOps' = portOps \cup {<<"main", "open", ch>>}
       /\ UNCHANGED wire
    \/ \* opened: reset buffers, read(4096) discarded, close
       /\ portOps' = portOps \cup {<<"main", "open", ch>>, <<"main", "reset", ch>>,
                                   <<"main", "read", ch>>, <<"main", "close", ch>>}
       /\ wire' = [wire EXCEPT ![ch] = <<>>]
       /\ UNCHANGED <<err_q, out_q, puts, faults>>

Preflight0 ==
    /\ pc = "preflight0"
    /\ PreflightPort("UART0")
    /\ pc' = "preflight3"
    /\ UNCHANGED <<steps, step_i, last_prompt, send_failed, ser_open, looped, ret,
                   inputVars, readerVars, logVars, diag_n,
                   written, dtr_sets, executed, pwVars, waitVars>>
    /\ UNCHANGED <<smokeVars, fnVars>>

Preflight3 ==
    /\ pc = "preflight3"
    /\ PreflightPort("UART3")
    /\ pc' = "start_readers"
    /\ UNCHANGED <<steps, step_i, last_prompt, send_failed, ser_open, looped, ret,
                   inputVars, readerVars, logVars, diag_n,
                   written, dtr_sets, executed, pwVars, waitVars>>
    /\ UNCHANGED <<smokeVars, fnVars>>

\* the log files are opened and one _reader_thread per channel is started
\* (uart_session.py:418-428); `if script_text is not None` (434): without a
\* script the send block is passed over
StartReaders ==
    /\ pc = "start_readers"
    /\ rd' = [ch \in Channels |-> "started"]
    /\ pc' = IF script_text = NoScript THEN "consume" ELSE "open_send"
    /\ UNCHANGED <<faults, steps, step_i, last_prompt, send_failed, ser_open, looped, ret,
                   inputVars, queueVars, stop, rd_hist, logVars, devVars,
                   histVars, pwVars, waitVars>>
    /\ UNCHANGED <<smokeVars, fnVars>>

\* time.sleep(send_delay); _open_for_send(uart3, baud, dtr=None)
\* (uart_session.py:434-441, 114-121)
OpenForSend ==
    /\ pc = "open_send"
    /\ portOps' = portOps \cup {<<"main", "open", "UART3">>}
    /\ \/ /\ ser_open' = TRUE
          /\ pc' = "parse"
          /\ UNCHANGED <<send_failed, queueVars, faults>>
       \/ /\ Fault
          /\ SendFailure
          /\ UNCHANGED err_q
    /\ UNCHANGED <<steps, step_i, last_prompt, looped, ret, inputVars,
                   readerVars, logVars, devVars, written, dtr_sets, executed,
                   pwVars, waitVars>>
    /\ UNCHANGED <<smokeVars, fnVars>>

\* steps = _parse_uart3_script(script_text); last_prompt = prompt_watch.count()
\* (uart_session.py:443-445)
ParseStep ==
    /\ pc = "parse"
    /\ LET r == ParseScript(script_text)
       IN  IF r.ok
           THEN /\ steps' = r.steps
                /\ step_i' = 1
                /\ last_prompt' = pw_count
                /\ pc' = "step"
                /\ UNCHANGED <<send_failed, ser_open, queueVars>>
           ELSE /\ SendFailure
                /\ UNCHANGED <<steps, step_i, last_prompt, err_q>>
    /\ UNCHANGED <<looped, ret, inputVars, readerVars, logVars, devVars,
                   histVars, faults, pwVars, waitVars>>
    /\ UNCHANGED <<smokeVars, fnVars>>

\* the step the loop is at
CurStep == steps[step_i]

AtStep(kind) ==
    /\ pc = "step"
    /\ step_i <= Len(steps)
    /\ CurStep.kind = kind

\* sleep step: time.sleep(max(0.0, float(step.value)))
StepSleep ==
    /\ AtStep("sleep")
    /\ step_i' = step_i + 1
    /\ executed' = Append(executed, step_i)
    /\ UNCHANGED <<faults, pc, steps, last_prompt, send_failed, ser_open, looped, ret,
                   inputVars, queueVars, readerVars, logVars, devVars,
                   written, dtr_sets, portOps, pwVars, waitVars>>
    /\ UNCHANGED <<smokeVars, fnVars>>

\* dtr step: ser.dtr = bool(step.value), an exception swallowed
StepDtr ==
    /\ AtStep("dtr")
    /\ step_i' = step_i + 1
    /\ executed' = Append(executed, step_i)
    /\ portOps' = portOps \cup {<<"main", "dtr", "UART3">>}
    /\ \/ dtr_sets' = Append(dtr_sets, CurStep.level)
       \/ UNCHANGED dtr_sets
    /\ UNCHANGED <<faults, pc, steps, last_prompt, send_failed, ser_open, looped, ret,
                   inputVars, queueVars, readerVars, logVars, devVars,
                   written, pwVars, waitVars>>
    /\ UNCHANGED <<smokeVars, fnVars>>

\* the payload of a send step: _decode_escapes, then _ensure_trailing_crlf
\* (auto_crlf is on unless --no-auto-crlf)
SendPayload(text) == EnsureTrailingCrlf(DecodeEscapes(text))

\* send step: ser.write(payload); ser.flush(); then the prompt wait begins
\* when --wait-prompt is given.  A write or flush may raise.
StepSend ==
    /\ AtStep("send")
    /\ executed' = Append(executed, step_i)
    /\ portOps' = portOps \cup {<<"main", "write", "UART3">>}
    /\ LET payload == SendPayload(CurStep.text)
       IN  \/ /\ written' = written \o payload
              /\ wire' = [wire EXCEPT !["UART3"] = @ \o DevReplyTo(payload)]
              /\ IF wait_prompt
                 THEN /\ WaitCall(last_prompt)
                      /\ pc' = "wait"
                      /\ UNCHANGED step_i
                 ELSE /\ step_i' = step_i + 1
                      /\ UNCHANGED <<pc, waitVars>>
              /\ UNCHANGED <<send_failed, ser_open, queueVars, faults>>
           \/ /\ Fault
              /\ SendFailure
              /\ UNCHANGED <<written, wire, step_i, err_q, waitVars>>
    /\ UNCHANGED <<steps, last_prompt, looped, ret, inputVars, readerVars, logVars,
                   diag_n, dtr_sets, pwVars>>
    /\ UNCHANGED <<smokeVars, fnVars>>

\* a send step that gives the script up when its prompt wait runs out
StepWaitReturnAbortOnTimeout ==
    /\ pc = "wait"
    /\ w_pc = "ret"
    /\ w_pc' = "idle"
    /\ IF w_found
       THEN /\ last_prompt' = pw_count
            /\ step_i' = step_i + 1
            /\ pc' = "step"
            /\ UNCHANGED <<send_failed, ser_open, queueVars>>
       ELSE /\ SendFailure
            /\ UNCHANGED <<last_prompt, step_i, err_q>>
    /\ UNCHANGED <<faults, w_last, w_left, w_found, w_mark, w_seen, steps,
                   looped, ret, inputVars, readerVars, logVars,
                   devVars, histVars, pwVars>>
    /\ UNCHANGED <<smokeVars, fnVars>>

\* after wait_for_next returned: last_prompt = prompt_watch.count()
StepWaitReturn ==
    /\ pc = "wait"
    /\ w_pc = "ret"
    /\ last_prompt' = pw_count
    /\ step_i' = step_i + 1
    /\ pc' = "step"
    /\ w_pc' = "idle"
    /\ UNCHANGED <<faults, w_last, w_left, w_found, w_mark, w_seen, steps, send_failed,
                   ser_open, looped, ret, inputVars, queueVars, readerVars, logVars,
                   devVars, histVars, pwVars>>
    /\ UNCHANGED <<smokeVars, fnVars>>

\* type step: every byte of the decoded payload is written and flushed on
\* its own; n bytes get out before a write raises (all of them: no failure)
StepType ==
    /\ AtStep("type")
    /\ executed' = Append(executed, step_i)
    /\ portOps' = portOps \cup {<<"main", "write", "UART3">>}
    /\ LET payload == DecodeEscapes(CurStep.text)
       IN  \E n \in 0..Len(payload) :
            /\ written' = written \o SubSeq(payload, 1, n)
            /\ wire' = [wire EXCEPT
                 !["UART3"] = @ \o DevReplyTo(SubSeq(payload, 1, n))]
            /\ IF n = Len(payload)
               THEN /\ step_i' = step_i + 1
                    /\ UNCHANGED <<pc, send_failed, ser_open, queueVars, faults>>
               ELSE /\ Fault
                    /\ SendFailure
                    /\ UNCHANGED <<step_i, err_q>>
    /\ UNCHANGED <<steps, last_prompt, looped, ret, inputVars, readerVars, logVars,
                   diag_n, dtr_sets, pwVars, waitVars>>
    /\ UNCHANGED <<smokeVars, fnVars>>

\* the step loop has run out of steps: the `with` block closes the handle
StepsDone ==
    /\ pc = "step"
    /\ step_i > Len(steps)
    /\ ser_open' = FALSE
    /\ pc' = "consume"
    /\ UNCHANGED <<faults, steps, step_i, last_prompt, send_failed, looped, ret,
                   inputVars,
                   queueVars, readerVars, logVars, devVars, histVars, pwVars,
                   waitVars>>
    /\ UNCHANGED <<smokeVars, fnVars>>

-----------------------------------------------------------------------------
(* uart_session.py main: the demux loop, teardown, result *)

\* a last-in, first-out queue
QueuePopLifo(q) == [item |-> q[Len(q)], rest |-> SubSeq(q, 1, Len(q) - 1)]

\* out_q.get on queue.Queue: the oldest item, and the queue without it
QueuePop(q) == [item |-> Head(q), rest |-> Tail(q)]

\* time.strftime("%H:%M:%S"): one atom, the wall clock is not modelled
TsLine == "HH:MM:SS"

\* line = b"".join([b"[", ts_line, b"] ", prefix.encode("utf-8"), data])
LogLine(name, data) == <<"[", TsLine, "] ", "[", name, "] ">> \o data

\* one round of the demux loop with an item on the queue
\* (uart_session.py:502-525)
ConsumeItem ==
    /\ pc = "consume"
    /\ out_q # <<>>
    /\ LET it == QueuePop(out_q).item
       IN  /\ out_q' = QueuePop(out_q).rest
           /\ IF it.name = "UART3"
              THEN PwFeed(it.data) /\ pw_stream' = pw_stream \o it.data
              ELSE UNCHANGED pwVars
           /\ logs' = [logs EXCEPT ![it.name] = Append(@, LogLine(it.name, it.data))]
           /\ consumed' = Append(consumed, it)
    /\ looped' = TRUE
    /\ UNCHANGED <<faults, pc, steps, step_i, last_prompt, send_failed,
                   ser_open, ret, inputVars, err_q, puts, readerVars, devVars,
                   histVars, waitVars>>
    /\ UNCHANGED <<smokeVars, fnVars>>

\* ret while an exception is on its way out of main
Raising == -2

\* one round of the demux loop in which fd.write(line) raises: the item has
\* left the queue and fed the watcher, nothing is logged, and the exception
\* leaves the try block for the finally clause (uart_session.py:502-517)
ConsumeRaises ==
    /\ pc = "consume"
    /\ out_q # <<>>
    /\ Fault
    /\ LET it == QueuePop(out_q).item
       IN  /\ out_q' = QueuePop(out_q).rest
           /\ IF it.name = "UART3"
              THEN PwFeed(it.data) /\ pw_stream' = pw_stream \o it.data
              ELSE UNCHANGED pwVars
    /\ ret' = Raising
    /\ pc' = "finally"
    /\ UNCHANGED <<steps, step_i, last_prompt, send_failed, ser_open, looped,
                   inputVars, err_q, puts, readerVars, logVars, devVars,
                   histVars, waitVars>>
    /\ UNCHANGED <<smokeVars, fnVars>>

\* one round of the demux loop with nothing on the queue: out_q.get times
\* out after 0.2 s, queue.Empty, `continue`
ConsumeEmpty ==
    /\ pc = "consume"
    /\ out_q = <<>>
    /\ ~looped
    /\ looped' = TRUE
    /\ UNCHANGED <<faults, pc, steps, step_i, last_prompt, send_failed,
                   ser_open, ret, inputVars, queueVars, readerVars, logVars,
                   devVars, histVars, pwVars, waitVars>>
    /\ UNCHANGED <<smokeVars, fnVars>>

\* the demux loop finds the duration elapsed and breaks.  The clock starts
\* when the loop does and --duration is seconds long (default 10), so the
\* first check of the deadline does not break (uart_session.py:497-500)
ConsumeDeadline ==
    /\ pc = "consume"
    /\ looped
    /\ pc' = "finally"
    /\ UNCHANGED <<faults, steps, step_i, last_prompt, send_failed, ser_open,
                   looped, ret, inputVars, queueVars, readerVars, logVars,
                   devVars, histVars, pwVars, waitVars>>
    /\ UNCHANGED <<smokeVars, fnVars>>

\* finally: stop.set()
FinallyStop ==
    /\ pc = "finally"
    /\ stop' = TRUE
    /\ pc' = "join"
    /\ UNCHANGED <<faults, steps, step_i, last_prompt, send_failed, ser_open, looped, ret,
                   inputVars, queueVars, rd, rd_hist, logVars, devVars,
                   histVars, pwVars, waitVars>>
    /\ UNCHANGED <<smokeVars, fnVars>>

\* finally: every t.join(timeout=1.0) has returned, the thread ended or
\* not; the log files are closed
JoinReaders ==
    /\ pc = "join"
    /\ pc' = "postflight"
    /\ UNCHANGED <<faults, steps, step_i, last_prompt, send_failed, ser_open, looped, ret,
                   inputVars, queueVars, readerVars, logVars, devVars,
                   histVars, pwVars, waitVars>>
    /\ UNCHANGED <<smokeVars, fnVars>>

\* finally: postflight, _preflight_port on both ports with its result
\* dropped (uart_session.py:545-575)
Postflight ==
    /\ pc = "postflight"
    /\ pc' = "result"
    /\ portOps' = portOps \cup {<<"main", "open", ch>> : ch \in Channels}
    /\ \E drained \in SUBSET Channels :
          wire' = [ch \in Channels |-> IF ch \in drained THEN <<>> ELSE wire[ch]]
    /\ UNCHANGED <<faults, steps, step_i, last_prompt, send_failed, ser_open, looped, ret,
                   inputVars, queueVars, readerVars, logVars,
                   diag_n, written, dtr_sets, executed, pwVars, waitVars>>
    /\ UNCHANGED <<smokeVars, fnVars>>

\* a result that looks at the send failure alone
ResultCodeSendOnly == IF ~send_failed THEN 0 ELSE 1

\* ok = (not send_failed) and (not had_uart_errors); return 0 if ok else 1
ResultCode == IF ~send_failed /\ err_q = <<>> THEN 0 ELSE 1

Result ==
    /\ pc = "result"
    /\ ret # Raising
    /\ ret' = ResultCode
    /\ pc' = "done"
    /\ UNCHANGED <<faults, steps, step_i, last_prompt, send_failed, ser_open,
                   looped, inputVars, queueVars, readerVars, logVars, devVars,
                   histVars, pwVars, waitVars>>
    /\ UNCHANGED <<smokeVars, fnVars>>

\* the finally clause is over with an exception in flight: it leaves main,
\* the lines after the try statement are not run
Reraise ==
    /\ pc = "result"
    /\ ret = Raising
    /\ pc' = "raised"
    /\ UNCHANGED <<faults, steps, step_i, last_prompt, send_failed, ser_open,
                   looped, ret, inputVars, queueVars, readerVars, logVars,
                   devVars, histVars, pwVars, waitVars>>
    /\ UNCHANGED <<smokeVars, fnVars>>

-----------------------------------------------------------------------------
(* _reader_thread *)

\* ser = serial.Serial(spec.device, spec.baud, timeout=0.2), which may raise
\* (uart_session.py:92-98)
ReaderOpen(ch) ==
    /\ rd[ch] = "started"
    /\ portOps' = portOps \cup {<<"reader", "open", ch>>}
    /\ \/ /\ rd' = [rd EXCEPT ![ch] = "top"]
          /\ UNCHANGED <<queueVars, faults>>
       \/ /\ Fault
          /\ rd' = [rd EXCEPT ![ch] = "exited"]
          /\ err_q' = Append(err_q, <<"open", ch>>)
          /\ out_q' = Append(out_q, Item(ch, MsgOpen, "reader_error"))
          /\ puts' = Append(puts, Item(ch, MsgOpen, "reader_error"))
    /\ UNCHANGED <<mainVars, inputVars, stop, rd_hist, logVars, devVars,
                   written, dtr_sets, executed, pwVars, waitVars>>
    /\ UNCHANGED <<smokeVars, fnVars>>

\* a loop head that does not look at the stop flag
ReaderTopIgnoresStop(ch) ==
    /\ rd[ch] = "top"
    /\ rd' = [rd EXCEPT ![ch] = "reading"]
    /\ UNCHANGED portOps
    /\ UNCHANGED <<faults, mainVars, inputVars, queueVars, stop, rd_hist, logVars,
                   devVars, written, dtr_sets, executed, pwVars, waitVars>>
    /\ UNCHANGED <<smokeVars, fnVars>>

\* `while not stop.is_set()`: the loop goes on to read, or ends and the
\* `with` closes the port
ReaderTop(ch) ==
    /\ rd[ch] = "top"
    /\ rd' = [rd EXCEPT ![ch] = IF stop THEN "exited" ELSE "reading"]
    /\ portOps' = IF stop THEN portOps \cup {<<"reader", "close", ch>>} ELSE portOps
    /\ UNCHANGED <<faults, mainVars, inputVars, queueVars, stop, rd_hist, logVars,
                   devVars, written, dtr_sets, executed, pwVars, waitVars>>
    /\ UNCHANGED <<smokeVars, fnVars>>

\* chunk = ser.read(4096) returns what has arrived by then: the first n
\* bytes in flight, nothing when the 0.2 s timeout passes with none;
\* `if chunk: out_q.put((spec.name, chunk))`
ReaderRead(ch) ==
    /\ rd[ch] = "reading"
    /\ rd' = [rd EXCEPT ![ch] = "top"]
    /\ portOps' = portOps \cup {<<"reader", "read", ch>>}
    /\ \E n \in 0..Len(wire[ch]) :
        LET chunk == SubSeq(wire[ch], 1, n)
        IN  /\ wire' = [wire EXCEPT ![ch] = SubSeq(@, n + 1, Len(@))]
            /\ IF chunk # <<>>
               THEN /\ out_q' = Append(out_q, Item(ch, chunk, "reader"))
                    /\ puts' = Append(puts, Item(ch, chunk, "reader"))
                    /\ rd_hist' = [rd_hist EXCEPT ![ch] = Append(@, chunk)]
               ELSE UNCHANGED <<out_q, puts, rd_hist>>
    /\ UNCHANGED <<faults, mainVars, inputVars, err_q, stop, logVars,
                   diag_n, written, dtr_sets, executed, pwVars, waitVars>>
    /\ UNCHANGED <<smokeVars, fnVars>>

\* a reader that reports a failed read and goes round its loop again
ReaderReadFailsRetry(ch) ==
    /\ rd[ch] = "reading"
    /\ Fault
    /\ rd' = [rd EXCEPT ![ch] = "top"]
    /\ portOps' = portOps \cup {<<"reader", "read", ch>>}
    /\ err_q' = Append(err_q, <<"read", ch>>)
    /\ out_q' = Append(out_q, Item(ch, MsgRead, "reader_error"))
    /\ puts' = Append(puts, Item(ch, MsgRead, "reader_error"))
    /\ UNCHANGED <<mainVars, inputVars, stop, rd_hist, logVars, devVars,
                   written, dtr_sets, executed, pwVars, waitVars>>
    /\ UNCHANGED <<smokeVars, fnVars>>

\* ser.read raises: the error is reported and the thread returns
\* (uart_session.py:104-108)
ReaderReadFails(ch) ==
    /\ rd[ch] = "reading"
    /\ Fault
    /\ rd' = [rd EXCEPT ![ch] = "exited"]
    /\ portOps' = portOps \cup {<<"reader", "read", ch>>, <<"reader", "close", ch>>}
    /\ err_q' = Append(err_q, <<"read", ch>>)
    /\ out_q' = Append(out_q, Item(ch, MsgRead, "reader_error"))
    /\ puts' = Append(puts, Item(ch, MsgRead, "reader_error"))
    /\ UNCHANGED <<mainVars, inputVars, stop, rd_hist, logVars, devVars,
                   written, dtr_sets, executed, pwVars, waitVars>>
    /\ UNCHANGED <<smokeVars, fnVars>>

-----------------------------------------------------------------------------
(* The device *)

\* the firmware prints its next diagnostic byte on UART0
DevDiag ==
    /\ diag_n < MaxDiag
    /\ diag_n' = diag_n + 1
    /\ wire' = [wire EXCEPT !["UART0"] = Append(@, DiagBytes[diag_n + 1])]
    /\ UNCHANGED <<faults, mainVars, inputVars, queueVars, readerVars, logVars,
                   histVars, pwVars, waitVars>>
    /\ UNCHANGED <<smokeVars, fnVars>>

-----------------------------------------------------------------------------
(* uart_smoketest.py: texts, strip_ansi, the case table                     *)
(* A text is a sequence of atoms: a control character, a punctuation mark,  *)
(* a digit or a letter on its own, or a run of other characters.            *)

ESC == "<ESC>"
BS == "<BS>"
DEL == "<DEL>"
NAK == "<NAK>"

\* [0-9;]
AnsiParams == {"0", "1", "2", "3", "4", "5", "6", "7", "8", "9", ";"}

\* [A-Za-z]
AnsiLetters ==
    {"A", "B", "C", "D", "E", "F", "G", "H", "I", "J", "K", "L", "M",
     "N", "O", "P", "Q", "R", "S", "T", "U", "V", "W", "X", "Y", "Z",
     "a", "b", "c", "d", "e", "f", "g", "h", "i", "j", "k", "l", "m",
     "n", "o", "p", "q", "r", "s", "t", "u", "v", "w", "x", "y", "z"}

\* [0-9;]* from position j: the first position that holds no parameter
RECURSIVE SkipParams(_, _)
SkipParams(s, j) ==
    IF j <= Len(s) /\ s[j] \in AnsiParams THEN SkipParams(s, j + 1) ELSE j

\* ANSI_RE matched at the head of s: the position of its last character,
\* 0 when it does not match there
AnsiEnd(s) ==
    IF Len(s) >= 3 /\ s[1] = ESC /\ s[2] = "["
    THEN LET j == SkipParams(s, 3)
         IN  IF j <= Len(s) /\ s[j] \in AnsiLetters THEN j ELSE 0
    ELSE 0

\* strip_ansi: ANSI_RE.sub("", text), matches taken left to right
RECURSIVE strip_ansi(_)
strip_ansi(text) ==
    IF text = <<>> THEN <<>>
    ELSE IF AnsiEnd(text) > 0
    THEN strip_ansi(SubSeq(text, AnsiEnd(text) + 1, Len(text)))
    ELSE <<Head(text)>> \o strip_ansi(Tail(text))

\* any(n in text for n in needles)
ContainsAny(needles, text) ==
    \E i \in 1..Len(needles) : Contains(needles[i], text)

\* TestCase(name, payload, expect_any, forbid_any=())
TestCase(name, payload, expect_any, forbid_any) ==
    [name |-> name, payload |-> payload, expect_any |-> expect_any,
     forbid_any |-> forbid_any]

\* the markers the smoke test looks for
SessionInitiated == <<"SESSION WAS ", "INITIATED">>
SessionDisconnected == <<"SESSION WAS ", "DISCONNECTED">>
PwmReady == <<"PWM Ready">>
PromptMark == <<">">>
WelcomeNeedles == <<PwmReady, PromptMark>>

\* main: cases
CaseTable ==
    << TestCase("HELP", <<"HELP", CR>>,
                << <<"Commands:">>, <<"PSYN n">>, <<"HELP">> >>, <<>>),
       TestCase("?", <<"?", CR>>, << <<"Commands:">>, <<"PSYN n">> >>, <<>>),
       TestCase("PSYN valid", <<"PSYN 44", CR>>,
                << <<"OK", ": duty set to 44%">> >>, <<>>),
       TestCase("PSYN out-of-range", <<"PSYN 4", CR>>,
                << <<"ERROR", ": value out of range">> >>, <<>>),
       TestCase("PSYN invalid", <<"PSYN foo", CR>>,
                << <<"ERROR", ": invalid number">> >>, <<>>),
       TestCase("PSYN missing", <<"PSYN", CR>>,
                << <<"ERROR", ": missing value">> >>, <<>>),
       TestCase("unknown", <<"XYZ", CR>>,
                << <<"ERROR", ": unknown command">> >>, <<>>),
       TestCase("lowercase -> uppercase", <<"psyn 55", CR>>,
                << <<"OK", ": duty set to 55%">> >>, <<>>),
       TestCase("backspace edit", <<"PSYN 44", BS, BS, "5", CR>>,
                << <<"ERROR">>, <<"OK">> >>, <<>>),
       TestCase("DEL edit", <<"PSYN 66", DEL, "7", CR>>,
                << <<"OK", ": duty set to 67%">>, <<"ERROR">> >>, <<>>),
       TestCase("Ctrl-U line kill then HELP", <<"PSYN 77", NAK, "HELP", CR>>,
                << <<"Commands:">>, <<"PSYN n">> >>, <<>>) >>

\* the names main appends for the disconnect / reconnect steps
StepDisconnect == "DTR disconnect -> UART0 notification"
StepReconnect == "DTR reconnect -> UART0 notification"
StepWelcome == "DTR reconnect -> UART3 welcome"

-----------------------------------------------------------------------------
(* The device behind the smoke test (firmware, not part of tools/): a       *)
(* session is open while the control line is at the device's connected      *)
(* level; the device announces the edges on UART0, greets on UART3, and      *)
(* answers a command line on UART3 while the session is open.                *)

\* the prompt
DevPrompt == <<">">>

\* the greeting of a new session: the banner after a colour reset, the prompt
DevWelcome == <<ESC, "[", "0", "m">> \o PwmReady \o DevPrompt

\* the session is open at this level of the line
DevConnected(level) ==
    \/ dev_mode = "pol_true" /\ level
    \/ dev_mode = "pol_false" /\ ~level

\* what the device sends when the line goes from level old to level new
DevOnDtr(old, new) ==
    IF ~DevConnected(old) /\ DevConnected(new)
    THEN [UART0 |-> SessionInitiated, UART3 |-> DevWelcome]
    ELSE IF DevConnected(old) /\ ~DevConnected(new)
    THEN [UART0 |-> SessionDisconnected, UART3 |-> <<>>]
    ELSE [UART0 |-> <<>>, UART3 |-> <<>>]

\* the answer of the command interpreter to a command line
DevAnswer(payload) ==
    CASE payload[1] \in {"HELP", "?", "PSYN 77"} -> <<"Commands:", "PSYN n">>
      [] payload[1] = "PSYN 44" /\ Len(payload) = 2 -> <<"OK", ": duty set to 44%">>
      [] payload[1] = "PSYN 44" /\ Len(payload) > 2 -> <<"ERROR", ": value out of range">>
      [] payload[1] = "PSYN 4" -> <<"ERROR", ": value out of range">>
      [] payload[1] = "PSYN foo" -> <<"ERROR", ": invalid number">>
      [] payload[1] = "PSYN" -> <<"ERROR", ": missing value">>
      [] payload[1] = "psyn 55" -> <<"OK", ": duty set to 55%">>
      [] payload[1] = "PSYN 66" -> <<"OK", ": duty set to 67%">>
      [] OTHER -> <<"ERROR", ": unknown command">>

\* what the device sends for a command line: the echo of what was typed,
\* the answer, the prompt
DevReply(payload) == <<payload[1]>> \o DevAnswer(payload) \o DevPrompt

\* a command line of the case-runner specification and what the device
\* may send for it
ProbePayload == <<"Q", CR>>
ProbeReplies ==
    { <<"duty", ESC, "[", "1", "m", " set">>,
      <<"ERROR", "duty", " set">>,
      <<"ERROR">>,
      <<"x">> }

\* the replies the device may give to a command line it answers
DevReplies(payload) ==
    IF payload = ProbePayload THEN ProbeReplies ELSE {DevReply(payload)}

-----------------------------------------------------------------------------
(* SerialReader, set_dtr, wait_for_text, wait_for_any *)

\* SerialReader._run: chunk = self.ser.read(4096) returns bytes
SerialReaderRead(ch) ==
    /\ ~r_stop
    /\ r_chunk[ch] = <<>>
    /\ \E n \in 1..Len(s_wire[ch]) :
        /\ r_chunk' = [r_chunk EXCEPT ![ch] = SubSeq(s_wire[ch], 1, n)]
        /\ s_wire' = [s_wire EXCEPT ![ch] = SubSeq(@, n + 1, Len(@))]
    /\ UNCHANGED <<s_pc, dtr, dev_mode, s_written, s_faults, s_silent,
                   dtr_hist, r_buf, r_stop, wtVars, csVars, suiteVars, orchVars, fnVars>>

\* SerialReader._run: with self._lock: self._buf.extend(chunk)
SerialReaderExtend(ch) ==
    /\ r_chunk[ch] # <<>>
    /\ r_buf' = [r_buf EXCEPT ![ch] = @ \o r_chunk[ch]]
    /\ r_chunk' = [r_chunk EXCEPT ![ch] = <<>>]
    /\ UNCHANGED <<s_pc, portVars, r_stop, wtVars, csVars, suiteVars, orchVars, fnVars>>

\* the thread that opened the handle of channel ch: main, in its `with
\* serial.Serial(...) as u0, serial.Serial(...) as u3`
SmokeHandleOpener(ch) == "main"

\* the thread that runs SerialReader._run and calls self.ser.read
SmokeReaderThread(ch) == <<"reader", ch>>

\* set_dtr(ser, level): the line takes the level and the device reacts
set_dtr(level) ==
    /\ dtr' = level
    /\ dtr_hist' = Append(dtr_hist, level)
    /\ s_wire' = [ch \in Channels |-> s_wire[ch] \o DevOnDtr(dtr, level)[ch]]

\* nothing of the channel is on its way: the device has sent nothing that
\* the reader has not read and a drain has not taken
Quiet(ch) == s_wire[ch] = <<>> /\ r_chunk[ch] = <<>> /\ r_buf[ch] = <<>>

\* wait_for_text(reader, needle, timeout_s) is entered
CallWaitForText(ch, needle, retpc) ==
    /\ wt' = [kind |-> "text", ch |-> ch, needles |-> <<needle>>, ret |-> retpc]
    /\ s_pc' = "wait_text"
    /\ wt_drained' = <<>>
    /\ UNCHANGED <<accum, wt_found, out, wt_how>>

\* wait_for_any(reader, needles, timeout_s) is entered: accum = ""
CallWaitForAny(ch, needles, retpc) ==
    /\ wt' = [kind |-> "any", ch |-> ch, needles |-> needles, ret |-> retpc]
    /\ s_pc' = "wait_any"
    /\ accum' = <<>>
    /\ wt_drained' = <<>>
    /\ UNCHANGED <<wt_found, out, wt_how>>

\* wait_for_text, one round of the loop: text = strip_ansi(drain_text());
\* `if needle in text: return True`; time.sleep(0.05)
WaitForTextPoll ==
    /\ s_pc = "wait_text"
    /\ r_buf' = [r_buf EXCEPT ![wt.ch] = <<>>]
    /\ wt_drained' = wt_drained \o r_buf[wt.ch]
    /\ IF Contains(wt.needles[1], strip_ansi(r_buf[wt.ch]))
       THEN wt_found' = TRUE /\ wt_how' = "match" /\ s_pc' = wt.ret
       ELSE UNCHANGED <<wt_found, wt_how, s_pc>>
    /\ UNCHANGED <<portVars, r_chunk, r_stop, wt, accum, out,
                   csVars, suiteVars, orchVars, fnVars>>

\* wait_for_text: the deadline has passed, `return False`.  Every timeout
\* of the program is long against the time the device takes to send, so a
\* wait runs out only with nothing of the channel on its way
WaitForTextTimeout ==
    /\ s_pc = "wait_text"
    /\ Quiet(wt.ch)
    /\ wt_found' = FALSE
    /\ wt_how' = "timeout"
    /\ s_pc' = wt.ret
    /\ UNCHANGED <<portVars, srVars, wt, accum, out, wt_drained, csVars,
                   suiteVars, orchVars, fnVars>>

\* wait_for_any, one round of the loop: accum += drain_text();
\* plain = strip_ansi(accum); `if n in plain: return plain`
WaitForAnyPoll ==
    /\ s_pc = "wait_any"
    /\ r_buf' = [r_buf EXCEPT ![wt.ch] = <<>>]
    /\ wt_drained' = wt_drained \o r_buf[wt.ch]
    /\ LET plain == strip_ansi(accum \o r_buf[wt.ch])
       IN  IF ContainsAny(wt.needles, plain)
           THEN /\ out' = plain
                /\ accum' = <<>>
                /\ wt_how' = "match"
                /\ s_pc' = wt.ret
           ELSE /\ accum' = accum \o r_buf[wt.ch]
                /\ UNCHANGED <<out, wt_how, s_pc>>
    /\ UNCHANGED <<portVars, r_chunk, r_stop, wt, wt_found, csVars,
                   suiteVars, orchVars, fnVars>>

\* wait_for_any: the deadline has passed, `return strip_ansi(accum)`
WaitForAnyTimeout ==
    /\ s_pc = "wait_any"
    /\ Quiet(wt.ch)
    /\ out' = strip_ansi(accum)
    /\ accum' = <<>>
    /\ wt_how' = "timeout"
    /\ s_pc' = wt.ret
    /\ UNCHANGED <<portVars, srVars, wt, wt_found, wt_drained, csVars,
                   suiteVars, orchVars, fnVars>>

\* the caller is done with what wait_for_any returned: `out` is assigned
\* anew by the next call
ForgetOut ==
    /\ out' = <<>>
    /\ wt_how' = "none"
    /\ wt_drained' = <<>>
    /\ UNCHANGED <<wt, accum, wt_found>>

-----------------------------------------------------------------------------
(* connect_session *)

\* uart3.reset_input_buffer(); uart0_reader.drain_text();
\* uart3_reader.drain_text(); the first loop begins with candidate False
ConnectClean ==
    /\ s_pc = "cs_clean"
    /\ s_wire' = [s_wire EXCEPT !["UART3"] = <<>>]
    /\ r_buf' = [ch \in Channels |-> <<>>]
    /\ phase' = "diag"
    /\ cand' = FALSE
    /\ s_pc' = "cs_pulse1"
    /\ UNCHANGED <<dtr, dev_mode, s_written, s_faults, s_silent, dtr_hist,
                   r_chunk, r_stop, wtVars, connected_level, established,
                   probes, suiteVars, orchVars, fnVars>>

\* pulse_dtr(uart3, not connected_level, connected_level, 0.25):
\* set_dtr(ser, first); time.sleep(delay_s)
ConnectPulseFirst ==
    /\ s_pc = "cs_pulse1"
    /\ set_dtr(~cand)
    /\ probes' = Append(probes, <<phase, cand>>)
    /\ s_pc' = "cs_pulse2"
    /\ UNCHANGED <<dev_mode, s_written, s_faults, s_silent, srVars, wtVars,
                   phase, cand, connected_level, established, suiteVars,
                   orchVars, fnVars>>

\* pulse_dtr: set_dtr(ser, second); then the wait of the probe is entered
ConnectPulseSecond ==
    /\ s_pc = "cs_pulse2"
    /\ set_dtr(cand)
    /\ IF phase = "diag"
       THEN CallWaitForText("UART0", SessionInitiated, "cs_diag")
       ELSE CallWaitForAny("UART3", WelcomeNeedles, "cs_fallback")
    /\ UNCHANGED <<dev_mode, s_written, s_faults, s_silent, srVars, csVars,
                   suiteVars, orchVars, fnVars>>

\* connect_session without its second loop
NextCandidateNoFallback ==
    IF ~cand
    THEN /\ cand' = TRUE
         /\ s_pc' = "cs_pulse1"
         /\ UNCHANGED <<phase, s_ret>>
    ELSE /\ s_ret' = "raised"
         /\ s_pc' = "finally"
         /\ UNCHANGED <<phase, cand>>

\* the candidate after this one, or the end of the loop
NextCandidate ==
    IF ~cand
    THEN /\ cand' = TRUE
         /\ s_pc' = "cs_pulse1"
         /\ UNCHANGED <<phase, s_ret>>
    ELSE IF phase = "diag"
    THEN /\ phase' = "fallback"
         /\ cand' = FALSE
         /\ s_pc' = "cs_pulse1"
         /\ UNCHANGED s_ret
    ELSE \* raise RuntimeError(...)
         /\ s_ret' = "raised"
         /\ s_pc' = "finally"
         /\ UNCHANGED <<phase, cand>>

\* first loop, after wait_for_text(uart0_reader, "SESSION WAS INITIATED")
ConnectDiag ==
    /\ s_pc = "cs_diag"
    /\ IF wt_found
       THEN /\ CallWaitForAny("UART3", WelcomeNeedles, "cs_return")
            /\ UNCHANGED <<phase, cand, s_ret>>
       ELSE /\ NextCandidate
            /\ UNCHANGED wtVars
    /\ UNCHANGED <<portVars, srVars, connected_level, established, probes,
                   cases, case_i, failures, results, step_obs, orchVars, fnVars>>

\* `return connected_level`; main: connected_level = connect_session(...),
\* the case loop begins
ConnectReturn ==
    /\ s_pc = "cs_return"
    /\ connected_level' = cand
    /\ established' = TRUE
    /\ case_i' = 1
    /\ s_pc' = "case_begin"
    /\ ForgetOut
    /\ UNCHANGED <<portVars, srVars, phase, cand, probes, cases, failures,
                   s_ret, results, step_obs, orchVars, fnVars>>

\* second loop, after out = wait_for_any(uart3_reader, ("PWM Ready", ">")):
\* `if "PWM Ready" in out or ">" in out: return connected_level`
ConnectFallback ==
    /\ s_pc = "cs_fallback"
    /\ IF Contains(PwmReady, out) \/ Contains(PromptMark, out)
       THEN /\ connected_level' = cand
            /\ established' = TRUE
            /\ case_i' = 1
            /\ s_pc' = "case_begin"
            /\ UNCHANGED <<phase, cand, s_ret>>
       ELSE /\ NextCandidate
            /\ UNCHANGED <<connected_level, established, case_i>>
    /\ ForgetOut
    /\ UNCHANGED <<portVars, srVars, probes, cases, failures, results,
                   step_obs, orchVars, fnVars>>

-----------------------------------------------------------------------------
(* run_case and the case loop of main *)

\* run_case: `for bad in case.forbid_any: if bad in out: return False, out`;
\* ok = any(good in out for good in case.expect_any)
RunCaseOkIgnoringForbidden(case, text) == ContainsAny(case.expect_any, text)

RunCaseOk(case, text) ==
    IF ContainsAny(case.forbid_any, text)
    THEN FALSE
    ELSE ContainsAny(case.expect_any, text)

\* main, case loop: `if not ok: failures.append(case.name)`
FailuresDropped(f, name, ok) == f

FailuresAfter(f, name, ok) == IF ok THEN f ELSE Append(f, name)

\* main: `if failures: return 1`, else `return 0`
SmokeResult(f) == IF f # <<>> THEN "1" ELSE "0"

\* run_case: uart3.reset_input_buffer(); uart3_reader.drain_text()
RunCaseBegin ==
    /\ s_pc = "case_begin"
    /\ case_i <= Len(cases)
    /\ s_wire' = [s_wire EXCEPT !["UART3"] = <<>>]
    /\ r_buf' = [r_buf EXCEPT !["UART3"] = <<>>]
    /\ s_pc' = "case_write"
    /\ ForgetOut
    /\ UNCHANGED <<dtr, dev_mode, s_written, s_faults, s_silent, dtr_hist,
                   r_chunk, r_stop, csVars, suiteVars, orchVars, fnVars>>

\* run_case: uart3.write(case.payload); uart3.flush(); the device, its
\* session open, answers or stays silent; wait_for_any is entered
RunCaseWrite ==
    /\ s_pc = "case_write"
    /\ s_written' = Append(s_written, cases[case_i].payload)
    /\ \/ /\ DevConnected(dtr)
          /\ \E reply \in DevReplies(cases[case_i].payload) :
                s_wire' = [s_wire EXCEPT !["UART3"] = @ \o reply]
          /\ UNCHANGED s_silent
       \/ /\ DevConnected(dtr)
          /\ s_silent < MaxSilent
          /\ s_silent' = s_silent + 1
          /\ UNCHANGED s_wire
       \/ /\ ~DevConnected(dtr)
          /\ UNCHANGED <<s_wire, s_silent>>
    /\ CallWaitForAny("UART3", cases[case_i].expect_any, "case_return")
    /\ UNCHANGED <<dtr, dev_mode, s_faults, dtr_hist, srVars, csVars,
                   suiteVars, orchVars, fnVars>>

\* run_case: uart3.write or uart3.flush raises; the exception leaves main
\* through its finally
RunCaseWriteFails ==
    /\ s_pc = "case_write"
    /\ s_faults < MaxFaults
    /\ s_faults' = s_faults + 1
    /\ s_ret' = "raised"
    /\ s_pc' = "finally"
    /\ UNCHANGED <<dtr, dev_mode, s_wire, s_written, s_silent, dtr_hist,
                   srVars, wtVars, csVars, cases, case_i, failures, results,
                   step_obs, orchVars, fnVars>>

\* run_case returns (ok, out); main records the failure and goes on to the
\* next case, `out` in hand until the next call
RunCaseReturn ==
    /\ s_pc = "case_return"
    /\ LET case == cases[case_i]
           ok == RunCaseOk(case, out)
       IN  /\ results' = Append(results, [name |-> case.name, ok |-> ok])
           /\ failures' = FailuresAfter(failures, case.name, ok)
    /\ case_i' = case_i + 1
    /\ s_pc' = "case_begin"
    /\ UNCHANGED <<portVars, srVars, wtVars, csVars, cases, s_ret, step_obs,
                   orchVars, fnVars>>

\* main: the case loop is over
SuiteDone ==
    /\ s_pc = "case_begin"
    /\ case_i > Len(cases)
    /\ s_pc' = "disconnect"
    /\ ForgetOut
    /\ UNCHANGED <<portVars, srVars, csVars, suiteVars, orchVars, fnVars>>

-----------------------------------------------------------------------------
(* main: forced disconnect and reconnect, result, finally *)

\* set_dtr(u3, not connected_level);
\* wait_for_text(u0r, "SESSION WAS DISCONNECTED", 1.5)
Disconnect ==
    /\ s_pc = "disconnect"
    /\ set_dtr(~connected_level)
    /\ CallWaitForText("UART0", SessionDisconnected, "disconnect_return")
    /\ UNCHANGED <<dev_mode, s_written, s_faults, s_silent, srVars, csVars,
                   suiteVars, orchVars, fnVars>>

\* `if not wait_for_text(...): failures.append(...)`; time.sleep(0.3)
DisconnectReturn ==
    /\ s_pc = "disconnect_return"
    /\ failures' = FailuresAfter(failures, StepDisconnect, wt_found)
    /\ step_obs' = Append(step_obs, [name |-> StepDisconnect, observed |-> wt_found])
    /\ s_pc' = "reconnect1"
    /\ UNCHANGED <<portVars, srVars, wtVars, csVars, cases, case_i, s_ret,
                   results, orchVars, fnVars>>

\* pulse_dtr(u3, not connected_level, connected_level, 0.25): first level
ReconnectFirst ==
    /\ s_pc = "reconnect1"
    /\ set_dtr(~connected_level)
    /\ s_pc' = "reconnect2"
    /\ UNCHANGED <<dev_mode, s_written, s_faults, s_silent, srVars, wtVars,
                   csVars, suiteVars, orchVars, fnVars>>

\* pulse_dtr: second level; wait_for_text(u0r, "SESSION WAS INITIATED", 1.5)
ReconnectSecond ==
    /\ s_pc = "reconnect2"
    /\ set_dtr(connected_level)
    /\ CallWaitForText("UART0", SessionInitiated, "reconnect_return")
    /\ UNCHANGED <<dev_mode, s_written, s_faults, s_silent, srVars, csVars,
                   suiteVars, orchVars, fnVars>>

\* `if not wait_for_text(...): failures.append(...)`;
\* welcome = wait_for_any(u3r, ("PWM Ready", ">"), 1.5)
ReconnectReturn ==
    /\ s_pc = "reconnect_return"
    /\ failures' = FailuresAfter(failures, StepReconnect, wt_found)
    /\ step_obs' = Append(step_obs, [name |-> StepReconnect, observed |-> wt_found])
    /\ CallWaitForAny("UART3", WelcomeNeedles, "welcome_return")
    /\ UNCHANGED <<portVars, srVars, csVars, cases, case_i, s_ret, results,
                   orchVars, fnVars>>

\* `if "PWM Ready" not in welcome: failures.append(...)`; [RESULT]
WelcomeReturn ==
    /\ s_pc = "welcome_return"
    /\ failures' = FailuresAfter(failures, StepWelcome, Contains(PwmReady, out))
    /\ step_obs' = Append(step_obs,
          [name |-> StepWelcome, observed |-> Contains(PwmReady, out)])
    /\ s_ret' = SmokeResult(failures')
    /\ s_pc' = "finally"
    /\ ForgetOut
    /\ UNCHANGED <<portVars, srVars, csVars, cases, case_i, results,
                   orchVars, fnVars>>

\* main leaving without its finally clause: the readers keep running
SmokeFinallyNoStop ==
    /\ s_pc = "finally"
    /\ s_pc' = "done"
    /\ UNCHANGED <<portVars, srVars, wtVars, csVars, suiteVars, orchVars, fnVars>>

\* finally: u0r.stop(); u3r.stop()
SmokeFinally ==
    /\ s_pc = "finally"
    /\ r_stop' = TRUE
    /\ s_pc' = "done"
    /\ UNCHANGED <<portVars, r_chunk, r_buf, wtVars, csVars, suiteVars,
                   orchVars, fnVars>>

-----------------------------------------------------------------------------
(* Inputs *)

\* the script lines the model draws from
ScriptLines ==
    { <<"send", " ", "A">>,
      <<"SEND">>,
      <<"type", " ", "B">>,
      <<"sleep", " ", "0.5">>,
      <<"sleep", " ", "-1">>,
      <<"dtr", " ", "1">>,
      <<"#", "c">>,
      <<"bogus">>,
      <<"type">>,
      <<"dtr", " ", "2">>,
      <<"sleep", " ", "abc">> }

\* every script text of at most MaxLines lines
Scripts == SeqsUpTo(ScriptLines, MaxLines)

\* the scripts of the whole-run specification
RunScripts ==
    { << <<"send", " ", "A">> >>,
      << <<"dtr", " ", "1">>, <<"type", " ", "B">>, <<"sleep", " ", "0.5">> >>,
      << <<"send", " ", "A">>, <<"bogus">> >> }

-----------------------------------------------------------------------------
(* Specifications *)

\* main has parsed its arguments and created the queues, the stop event and
\* the prompt watcher (uart_session.py:355-381); no thread runs yet
\* uart_smoketest.py is not running
\* no function is being applied on its own
FnIdle ==
    /\ fn_in = <<>>
    /\ fn_out = <<>>

SmokeIdle ==
    /\ s_pc = "idle"
    /\ dtr = FALSE
    /\ dev_mode = "mute"
    /\ s_wire = [ch \in Channels |-> <<>>]
    /\ r_chunk = [ch \in Channels |-> <<>>]
    /\ r_buf = [ch \in Channels |-> <<>>]
    /\ r_stop = FALSE
    /\ wt = [kind |-> "none", ch |-> "UART0", needles |-> <<>>, ret |-> "idle"]
    /\ accum = <<>>
    /\ wt_found = FALSE
    /\ out = <<>>
    /\ wt_how = "none"
    /\ wt_drained = <<>>
    /\ phase = "diag"
    /\ cand = FALSE
    /\ connected_level = FALSE
    /\ established = FALSE
    /\ cases = <<>>
    /\ case_i = 0
    /\ failures = <<>>
    /\ s_ret = "running"
    /\ results = <<>>
    /\ step_obs = <<>>
    /\ probes = <<>>
    /\ dtr_hist = <<>>
    /\ s_written = <<>>
    /\ s_faults = 0
    /\ s_silent = 0

SessionInit ==
    /\ pc = "preflight0"
    /\ steps = <<>>
    /\ step_i = 0
    /\ last_prompt = 0
    /\ send_failed = FALSE
    /\ ser_open = FALSE
    /\ looped = FALSE
    /\ ret = -1
    /\ out_q = <<>>
    /\ err_q = <<>>
    /\ puts = <<>>
    /\ stop = FALSE
    /\ rd = [ch \in Channels |-> "unstarted"]
    /\ rd_hist = [ch \in Channels |-> <<>>]
    /\ logs = [ch \in Channels |-> <<>>]
    /\ consumed = <<>>
    /\ wire = [ch \in Channels |-> <<>>]
    /\ diag_n = 0
    /\ written = <<>>
    /\ dtr_sets = <<>>
    /\ executed = <<>>
    /\ portOps = {}
    /\ faults = 0

\* A whole run of uart_session.py with a script, two readers and the device
Init ==
    /\ FnIdle
    /\ SmokeIdle
    /\ PwInit
    /\ WaitInit
    /\ SessionInit
    /\ script_text \in RunScripts
    /\ wait_prompt \in BOOLEAN

MainNext ==
    \/ ReadScriptFails
    \/ Preflight0
    \/ Preflight3
    \/ StartReaders
    \/ OpenForSend
    \/ ParseStep
    \/ StepSleep
    \/ StepDtr
    \/ StepSend
    \/ StepType
    \/ StepWaitReturn
    \/ StepsDone
    \/ WaitCheck
    \/ WaitWake
    \/ WaitClear
    \/ ConsumeItem
    \/ ConsumeEmpty
    \/ ConsumeRaises
    \/ ConsumeDeadline
    \/ FinallyStop
    \/ JoinReaders
    \/ Postflight
    \/ Result
    \/ Reraise

ReaderNext ==
    \E ch \in Channels :
        \/ ReaderOpen(ch)
        \/ ReaderTop(ch)
        \/ ReaderRead(ch)
        \/ ReaderReadFails(ch)

DeviceNext == DevDiag

Next == MainNext \/ ReaderNext \/ DeviceNext

Spec == Init /\ [][Next]_vars

\* the steps of the reader thread of channel ch
ReaderStep(ch) ==
    \/ ReaderOpen(ch)
    \/ ReaderTop(ch)
    \/ ReaderRead(ch)
    \/ ReaderReadFails(ch)

\* The whole run with its threads scheduled: a reader thread that can take a
\* step takes one, a read ending in data or in its 0.2 s timeout
SpecFair == Spec /\ \A ch \in Channels : WF_vars(ReaderStep(ch))

\* The script engine alone: the readers have been started and have not run
\* yet, the device is silent but for its replies, and the script is any text
\* of at most MaxLines lines
InitScript ==
    /\ FnIdle
    /\ SmokeIdle
    /\ PwInit
    /\ WaitInit
    /\ script_text \in Scripts
    /\ wait_prompt \in BOOLEAN
    /\ pc = "open_send"
    /\ steps = <<>>
    /\ step_i = 0
    /\ last_prompt = 0
    /\ send_failed = FALSE
    /\ ser_open = FALSE
    /\ looped = FALSE
    /\ ret = -1
    /\ out_q = <<>>
    /\ err_q = <<>>
    /\ puts = <<>>
    /\ stop = FALSE
    /\ rd = [ch \in Channels |-> "started"]
    /\ rd_hist = [ch \in Channels |-> <<>>]
    /\ logs = [ch \in Channels |-> <<>>]
    /\ consumed = <<>>
    /\ wire = [ch \in Channels |-> <<>>]
    /\ diag_n = 0
    /\ written = <<>>
    /\ dtr_sets = <<>>
    /\ executed = <<>>
    /\ portOps = {<<"main", "open", ch>> : ch \in Channels}
                   \cup {<<"main", "reset", ch>> : ch \in Channels}
                   \cup {<<"main", "read", ch>> : ch \in Channels}
                   \cup {<<"main", "close", ch>> : ch \in Channels}
    /\ faults = 0

NextScript ==
    \/ OpenForSend
    \/ ParseStep
    \/ StepSleep
    \/ StepDtr
    \/ StepSend
    \/ StepType
    \/ StepWaitReturn
    \/ StepsDone
    \/ WaitCheck
    \/ WaitWake
    \/ WaitClear

SpecScript == InitScript /\ [][NextScript]_vars

\* The needle watcher alone, fed chunk after chunk
InitWatch ==
    /\ FnIdle
    /\ SmokeIdle
    /\ PwInit
    /\ WaitInit
    /\ SessionInit
    /\ script_text = <<>>
    /\ wait_prompt = FALSE

\* a caller feeds one chunk
WatchFeed ==
    /\ \E data \in SeqsUpTo(WatchBytes, 2) :
        /\ Len(pw_stream) + Len(data) <= MaxStream
        /\ PwFeed(data)
        /\ pw_stream' = pw_stream \o data
    /\ UNCHANGED <<waitVars, sessionVars>>
    /\ UNCHANGED <<smokeVars, fnVars>>

NextWatch == WatchFeed

SpecWatch == InitWatch /\ [][NextWatch]_vars

\* _ensure_trailing_crlf applied to a payload, and again to its result

\* the longest payload
MaxPayload == 4

\* the payloads: every byte string over a letter, CR and LF
Payloads == SeqsUpTo({"A", CR, LF}, MaxPayload)

\* everything but the function applied is at rest
AllIdle ==
    /\ SmokeIdle
    /\ PwInit
    /\ WaitInit
    /\ SessionInit
    /\ script_text = <<>>
    /\ wait_prompt = FALSE

InitCrlf ==
    /\ AllIdle
    /\ fn_in \in Payloads
    /\ fn_out = <<>>

\* payload = _ensure_trailing_crlf(payload), of the argument and then of
\* what the call before returned
NormalizePayload ==
    /\ Len(fn_out) < 2
    /\ fn_out' = Append(fn_out,
                    EnsureTrailingCrlf(IF fn_out = <<>> THEN fn_in
                                       ELSE fn_out[Len(fn_out)]))
    /\ UNCHANGED <<fn_in, orchVars, smokeVars>>

NextCrlf == NormalizePayload

SpecCrlf == InitCrlf /\ [][NextCrlf]_vars

\* _parse_uart3_script applied to a script text

\* the lines of the texts parsed: those of the scripts run, a blank line, a
\* send of the empty text, a trailing comment, an indented mixed-case verb
ParseLines ==
    ScriptLines \cup
        { <<>>,
          <<"send", " ">>,
          <<"send", " ", "A", " ", "#", "c">>,
          <<" ", "Type", " ", "B">> }

ParseTexts == SeqsUpTo(ParseLines, MaxLines)

InitParse ==
    /\ AllIdle
    /\ fn_in \in ParseTexts
    /\ fn_out = <<>>

\* steps = _parse_uart3_script(script_text)
ParseText ==
    /\ fn_out = <<>>
    /\ fn_out' = <<ParseScript(fn_in)>>
    /\ UNCHANGED <<fn_in, orchVars, smokeVars>>

NextParse == ParseText

SpecParse == InitParse /\ [][NextParse]_vars

\* The needle watcher fed chunks as large as a read can return
\* (ser.read(4096)), so that the rolling buffer overflows

\* n bytes that are no part of the needle
Bulk(n) == [i \in 1..n |-> "x"]

\* the chunks fed: nothing, parts of the needle, the needle, and long chunks
\* without the needle, with it in front and with it at the end
FeedChunks ==
    { <<>>, <<">">>, PromptNeedle,
      Bulk(BufKeep), Bulk(BufCap),
      PromptNeedle \o Bulk(BufKeep), Bulk(BufKeep) \o PromptNeedle,
      PromptNeedle \o Bulk(BufCap - 2) }

\* the number of bytes of the stream other than bulk
NeedleBytes(q) == Cardinality({i \in 1..Len(q) : q[i] # "x"})

\* the longest stream fed
MaxFeedTotal == BufCap + BufKeep + MaxStream

\* a caller feeds one chunk
FeedChunk ==
    /\ \E data \in FeedChunks :
        /\ Len(pw_stream) + Len(data) <= MaxFeedTotal
        /\ NeedleBytes(pw_stream \o data) <= MaxStream
        /\ PwFeed(data)
        /\ pw_stream' = pw_stream \o data
    /\ UNCHANGED <<waitVars, sessionVars>>
    /\ UNCHANGED <<smokeVars, fnVars>>

NextFeed == FeedChunk

SpecFeed == InitWatch /\ [][NextFeed]_vars

\* The needle watcher shared by two threads: one calls wait_for_next, the
\* other feeds.  The statements of wait_for_next are separate steps, and the
\* clock may pass a quantum between any two of them.

\* the waiting thread calls wait_for_next(self.count(), timeout)
WaiterCall ==
    /\ w_pc = "idle"
    /\ WaitCall(pw_count)
    /\ UNCHANGED <<pwVars, sessionVars>>
    /\ UNCHANGED <<smokeVars, fnVars>>

\* `if self.count() > last_count: return True` (uart_session.py:67-68)
WaiterCount ==
    /\ w_pc = "check"
    /\ IF pw_count > w_last
       THEN w_pc' = "ret" /\ w_found' = TRUE
       ELSE w_pc' = "deadline" /\ UNCHANGED w_found
    /\ UNCHANGED <<w_last, w_left, w_mark, w_seen, pwVars, sessionVars>>
    /\ UNCHANGED <<smokeVars, fnVars>>

\* `remaining = deadline - time.monotonic()`; `if remaining <= 0: return
\* False` (uart_session.py:69-71)
WaiterDeadline ==
    /\ w_pc = "deadline"
    /\ IF w_left <= 0
       THEN w_pc' = "ret" /\ w_found' = FALSE
       ELSE w_pc' = "waiting" /\ UNCHANGED w_found
    /\ UNCHANGED <<w_last, w_left, w_mark, w_seen, pwVars, sessionVars>>
    /\ UNCHANGED <<smokeVars, fnVars>>

\* self._event.wait(timeout=min(0.25, remaining)) returns at once: the
\* event is set
WaiterWoken ==
    /\ w_pc = "waiting"
    /\ pw_event
    /\ w_pc' = "clear"
    /\ UNCHANGED <<w_last, w_left, w_found, w_mark, w_seen, pwVars, sessionVars>>
    /\ UNCHANGED <<smokeVars, fnVars>>

\* self._event.wait(timeout=min(0.25, remaining)) runs out: a quantum has
\* passed with the event clear
WaiterTimedOut ==
    /\ w_pc = "waiting"
    /\ ~pw_event
    /\ w_pc' = "clear"
    /\ w_left' = w_left - 1
    /\ UNCHANGED <<w_last, w_found, w_mark, w_seen, pwVars, sessionVars>>
    /\ UNCHANGED <<smokeVars, fnVars>>

\* the clock passes a quantum while the waiting thread is between two
\* statements
ClockTick ==
    /\ w_pc \in {"check", "deadline", "clear"}
    /\ w_left > 0
    /\ w_left' = w_left - 1
    /\ UNCHANGED <<w_pc, w_last, w_found, w_mark, w_seen, pwVars, sessionVars>>
    /\ UNCHANGED <<smokeVars, fnVars>>

\* the other thread calls feed(data); w_seen records a feed that raised the
\* counter during the wait with the deadline still ahead
FeederFeed ==
    /\ \E data \in SeqsUpTo(WatchBytes, 2) :
        /\ Len(pw_stream) + Len(data) <= MaxStream
        /\ PwFeed(data)
        /\ pw_stream' = pw_stream \o data
    /\ w_seen' = (w_seen \/ (/\ w_pc \in {"check", "deadline", "waiting", "clear"}
                             /\ w_left > 0
                             /\ pw_count' > pw_count))
    /\ UNCHANGED <<w_pc, w_last, w_left, w_found, w_mark, sessionVars>>
    /\ UNCHANGED <<smokeVars, fnVars>>

\* the steps of the waiting thread
Waiter ==
    \/ WaiterCount
    \/ WaiterDeadline
    \/ WaiterWoken
    \/ WaiterTimedOut
    \/ WaitClear

NextWait ==
    \/ WaiterCall
    \/ Waiter
    \/ ClockTick
    \/ FeederFeed

\* the waiting thread is scheduled again and again, and a timed wait ends
SpecWait == InitWatch /\ [][NextWait]_vars /\ WF_vars(Waiter)

\* uart_session.py is not running
OrchIdle ==
    /\ PwInit
    /\ WaitInit
    /\ SessionInit
    /\ script_text = <<>>
    /\ wait_prompt = FALSE

\* A whole run of uart_smoketest.py: both ports are open, both readers
\* run, the line is at either level, the device is of either polarity or
\* mute, and connect_session is about to be called
InitSmoke ==
    /\ FnIdle
    /\ OrchIdle
    /\ s_pc = "cs_clean"
    /\ dtr \in BOOLEAN
    /\ dev_mode \in {"pol_true", "pol_false", "mute"}
    /\ s_wire = [ch \in Channels |-> <<>>]
    /\ r_chunk = [ch \in Channels |-> <<>>]
    /\ r_buf = [ch \in Channels |-> <<>>]
    /\ r_stop = FALSE
    /\ wt = [kind |-> "none", ch |-> "UART0", needles |-> <<>>, ret |-> "idle"]
    /\ accum = <<>>
    /\ wt_found = FALSE
    /\ out = <<>>
    /\ wt_how = "none"
    /\ wt_drained = <<>>
    /\ phase = "diag"
    /\ cand = FALSE
    /\ connected_level = FALSE
    /\ established = FALSE
    /\ cases = CaseTable
    /\ case_i = 0
    /\ failures = <<>>
    /\ s_ret = "running"
    /\ results = <<>>
    /\ step_obs = <<>>
    /\ probes = <<>>
    /\ dtr_hist = <<>>
    /\ s_written = <<>>
    /\ s_faults = 0
    /\ s_silent = 0

SerialReaderNext ==
    \E ch \in Channels :
        \/ SerialReaderRead(ch)
        \/ SerialReaderExtend(ch)

WaitNext ==
    \/ WaitForTextPoll
    \/ WaitForTextTimeout
    \/ WaitForAnyPoll
    \/ WaitForAnyTimeout

CaseNext ==
    \/ RunCaseBegin
    \/ RunCaseWrite
    \/ RunCaseWriteFails
    \/ RunCaseReturn
    \/ SuiteDone

NextSmoke ==
    \/ ConnectClean
    \/ ConnectPulseFirst
    \/ ConnectPulseSecond
    \/ ConnectDiag
    \/ ConnectReturn
    \/ ConnectFallback
    \/ CaseNext
    \/ Disconnect
    \/ DisconnectReturn
    \/ ReconnectFirst
    \/ ReconnectSecond
    \/ ReconnectReturn
    \/ WelcomeReturn
    \/ SmokeFinally
    \/ WaitNext
    \/ SerialReaderNext

SpecSmoke == InitSmoke /\ [][NextSmoke]_vars

\* the cases the case-runner specification runs: one command line, with
\* accepted and forbidden fragments
DutySet == <<"duty", " set">>
CaseInputs ==
    { TestCase("probe", ProbePayload, e, f) :
        e \in { <<>>, <<DutySet>>, << <<"x">>, DutySet >> },
        f \in { <<>>, << <<"ERROR">> >>, << <<"x">>, <<"ERROR">> >> } }

\* run_case alone: the session is open on a device of polarity true and
\* the loop of main runs one case of CaseInputs
InitCase ==
    /\ FnIdle
    /\ OrchIdle
    /\ s_pc = "case_begin"
    /\ dtr = TRUE
    /\ dev_mode = "pol_true"
    /\ s_wire = [ch \in Channels |-> <<>>]
    /\ r_chunk = [ch \in Channels |-> <<>>]
    /\ r_buf = [ch \in Channels |-> <<>>]
    /\ r_stop = FALSE
    /\ wt = [kind |-> "none", ch |-> "UART0", needles |-> <<>>, ret |-> "idle"]
    /\ accum = <<>>
    /\ wt_found = FALSE
    /\ out = <<>>
    /\ wt_how = "none"
    /\ wt_drained = <<>>
    /\ phase = "diag"
    /\ cand = TRUE
    /\ connected_level = TRUE
    /\ established = TRUE
    /\ cases \in {<<c>> : c \in CaseInputs}
    /\ case_i = 1
    /\ failures = <<>>
    /\ s_ret = "running"
    /\ results = <<>>
    /\ step_obs = <<>>
    /\ probes = << <<"diag", FALSE>>, <<"diag", TRUE>> >>
    /\ dtr_hist = <<TRUE, FALSE, FALSE, TRUE>>
    /\ s_written = <<>>
    /\ s_faults = 0
    /\ s_silent = 0

NextCase ==
    \/ CaseNext
    \/ SmokeFinally
    \/ WaitForAnyPoll
    \/ WaitForAnyTimeout
    \/ SerialReaderRead("UART3")
    \/ SerialReaderExtend("UART3")

SpecCase == InitCase /\ [][NextCase]_vars

-----------------------------------------------------------------------------
(* Claims about uart_smoketest.py *)

\* C1: with a device of polarity true (the session marker is sent on UART0
\* exactly when the line goes from false to true) connect_session returns
\* True, whatever level the line had and however the marker's arrival
\* interleaves with the probe; it does not fail; and every probe is of the
\* candidate False or True.
C1_ConnectReturnsTrue ==
    dev_mode = "pol_true" =>
        /\ established => connected_level
        /\ s_ret = "raised" => established
        /\ \A i \in 1..Len(probes) : probes[i][2] \in BOOLEAN

\* the outcome run_case is to give for a case and the text it captured
Outcome(case, text) ==
    /\ ContainsAny(case.expect_any, text)
    /\ ~ContainsAny(case.forbid_any, text)

\* C6: when run_case has returned, its outcome is fail if the captured text
\* holds a forbidden fragment, accepted fragment or not; it is pass exactly
\* when the text holds an accepted fragment and no forbidden one; and after
\* a timeout with no accepted fragment it is fail and the text returned is
\* all that was drained during the wait, control sequences removed.
C6_RunCaseOutcome ==
    (s_pc = "case_begin" /\ case_i > 1) =>
        LET case == cases[case_i - 1]
            r == results[Len(results)]
        IN  /\ r.name = case.name
            /\ ContainsAny(case.forbid_any, out) => ~r.ok
            /\ r.ok = Outcome(case, out)
            /\ out = strip_ansi(wt_drained)
            /\ (wt_how = "timeout" /\ ~ContainsAny(case.expect_any, out)) => ~r.ok
            /\ wt_how = "match" <=> ContainsAny(case.expect_any, out)

\* C6 witness: run_case has returned fail on a text that holds a forbidden
\* fragment and an accepted one
C6_Witness ==
    /\ s_pc = "case_begin"
    /\ case_i = 2
    /\ ContainsAny(cases[1].forbid_any, out)
    /\ ContainsAny(cases[1].expect_any, out)
    /\ ~results[1].ok

\* the names in sequence q of records
Names(q) == [i \in 1..Len(q) |-> q[i].name]

\* the names of the cases of q whose outcome was fail
FailedCases(q) == Names(SelectSeq(q, LAMBDA r : ~r.ok))

\* the names of the steps of q whose marker was not observed
FailedSteps(q) == Names(SelectSeq(q, LAMBDA r : ~r.observed))

\* C7: once connect_session has returned, the cases run are the cases of
\* the table from the top, each written once, in order, failed or not; the
\* disconnect/reconnect steps come only after the whole table; the failure
\* list is the names of the failed cases followed by the steps whose marker
\* was not observed; and main returns 0 exactly when the list is empty.
\* Only an exception of a port write leaves the table unfinished.
C7_AllCasesRunResultFromFailures ==
    established =>
        /\ Names(results) = SubSeq(Names(CaseTable), 1, Len(results))
        /\ Len(s_written) \in {Len(results), Len(results) + 1}
        /\ \A i \in 1..Len(s_written) : s_written[i] = CaseTable[i].payload
        /\ failures = FailedCases(results) \o FailedSteps(step_obs)
        /\ Names(step_obs) = SubSeq(<<StepDisconnect, StepReconnect, StepWelcome>>,
                                    1, Len(step_obs))
        /\ (step_obs # <<>> \/ s_pc = "disconnect") => Len(results) = Len(CaseTable)
        /\ s_ret \in {"0", "1"} =>
             /\ Len(step_obs) = 3
             /\ s_ret = "0" <=> failures = <<>>
        /\ s_ret = "raised" => s_faults > 0
        /\ (s_pc = "done" /\ s_faults = 0) => s_ret \in {"0", "1"}

\* C7 witness: the run is over, the first case failed, the second passed,
\* the whole table was run and main returned 1
C7_Witness ==
    /\ s_pc = "done"
    /\ s_ret = "1"
    /\ Len(results) = Len(CaseTable)
    /\ ~results[1].ok
    /\ results[2].ok
    /\ failures[1] = CaseTable[1].name

\* the probes of connect_session, in order
ProbeOrder ==
    << <<"diag", FALSE>>, <<"diag", TRUE>>,
       <<"fallback", FALSE>>, <<"fallback", TRUE>> >>

\* the levels the probes q set: for each, the opposite of the candidate,
\* then the candidate
PulseLevels(q) ==
    [i \in 1..(2 * Len(q)) |->
        IF i % 2 = 1 THEN ~q[(i + 1) \div 2][2] ELSE q[i \div 2][2]]

\* C11: the probes are begun in the order diagnostic False, diagnostic
\* True, command-channel False, command-channel True; each sets the line to
\* the opposite of its candidate and then to the candidate, and nothing else
\* sets the line during connect_session; a diagnostic probe waits for the
\* session marker on the diagnostic channel, a command-channel probe for the
\* welcome banner or the prompt on the command channel; a probe is followed
\* by another only if the diagnostic marker was not observed; the level returned is the
\* candidate of the last probe begun, in the first loop only with the
\* marker observed; and connect_session fails only after all four probes.
C11_ProbeOrder ==
    /\ probes = SubSeq(ProbeOrder, 1, Len(probes))
    /\ IF s_pc = "cs_pulse2"
       THEN dtr_hist = SubSeq(PulseLevels(probes), 1, 2 * Len(probes) - 1)
       ELSE /\ Len(dtr_hist) >= 2 * Len(probes)
            /\ SubSeq(dtr_hist, 1, 2 * Len(probes)) = PulseLevels(probes)
    /\ (~established \/ (s_pc = "case_begin" /\ case_i = 1))
          => Len(dtr_hist) <= 2 * Len(probes)
    /\ (s_pc = "cs_pulse1" /\ probes # <<>>) => ~wt_found
    /\ (~established /\ s_pc = "wait_text") =>
          /\ phase = "diag"
          /\ wt.ch = "UART0"
          /\ wt.needles = <<SessionInitiated>>
    /\ (~established /\ s_pc = "wait_any" /\ phase = "fallback") =>
          /\ wt.ch = "UART3"
          /\ wt.needles = WelcomeNeedles
    /\ s_pc = "cs_return" => (wt_found /\ phase = "diag")
    /\ established =>
          /\ probes # <<>>
          /\ connected_level = probes[Len(probes)][2]
    /\ (s_ret = "raised" /\ ~established) => probes = ProbeOrder

\* C11 witness: both diagnostic probes failed and the first probe on the
\* command channel gave the level
C11_Witness ==
    /\ established
    /\ probes = SubSeq(ProbeOrder, 1, 3)
    /\ ~connected_level
    /\ dtr_hist = <<TRUE, FALSE, FALSE, TRUE, TRUE, FALSE>>

\* C12: when connect_session fails, no test-case payload has been or is
\* written to the command channel, no case has a result, no disconnect or
\* reconnect step is made (the line is set by the four probes only), the
\* run ends as a raised error and not as a list of failed cases, and once
\* main has left both readers are stopped.
C12_ConnectFailureIsSetupError ==
    (s_ret = "raised" /\ ~established) =>
        /\ s_written = <<>>
        /\ results = <<>>
        /\ step_obs = <<>>
        /\ failures = <<>>
        /\ dtr_hist = PulseLevels(ProbeOrder)
        /\ s_pc \in {"finally", "done"}
        /\ s_pc = "done" => r_stop

\* C12 witness: every probe failed, main has left
C12_Witness ==
    /\ s_ret = "raised"
    /\ ~established
    /\ s_pc = "done"
    /\ r_stop
    /\ Len(probes) = 4

-----------------------------------------------------------------------------
(* Claims about uart_session.py *)

\* C2: in prompt-synchronized mode the wait after a send returns found
\* when the device's prompt marker is captured from the command channel
\* before the prompt timeout: a wait does not return not-found after it
\* slept a quantum with the marker, captured since the send, on the sink.
C2_WaitFindsCapturedMarker ==
    (pc = "wait" /\ w_pc = "ret" /\ w_seen) => w_found

\* C3: the match counter equals the number of occurrences of the needle in
\* the stream fed so far: every occurrence counts once, split across feed
\* calls or not, and a feed that brings no new occurrence counts nothing.
C3_CountIsOccurrences == pw_count = Occurrences(PromptNeedle, pw_stream)

\* the items of sequence q that a channel reader put
ReaderItems(q) == SelectSeq(q, LAMBDA it : it.src = "reader")

\* C4: at the end of the run, from the moment the demux loop is over and
\* the stop flag is set (nothing is taken from the sink after that), the
\* items the channel readers have put on the capture sink are the items the
\* demux loop took, each exactly once: none taken twice, none left unlogged.
C4_EveryItemConsumedOnce ==
    pc \in {"join", "postflight", "result"}
        => ReaderItems(consumed) = ReaderItems(puts)

\* the reader-read payloads of channel ch among the items in sequence q
ReadPayloads(q, ch) ==
    LET sel == SelectSeq(q, LAMBDA it : it.name = ch /\ it.src = "reader")
    IN  [i \in 1..Len(sel) |-> sel[i].data]

\* the items of channel ch in sequence q
ChannelItems(q, ch) == SelectSeq(q, LAMBDA it : it.name = ch)

\* C5: per channel, the log holds one record per item taken for that
\* channel, in the order taken; the record is the framing "[" time "] "
\* "[" tag "] " followed by the item's payload unchanged; and the payloads
\* that came from the channel's reader are logged in the order it read them.
C5_LogKeepsReadOrder ==
    \A ch \in Channels :
        LET its == ChannelItems(consumed, ch)
            rp == ReadPayloads(consumed, ch)
        IN  /\ Len(logs[ch]) = Len(its)
            /\ \A i \in 1..Len(its) :
                 /\ SubSeq(logs[ch][i], 1, 6) = <<"[", "HH:MM:SS", "] ", "[", ch, "] ">>
                 /\ SubSeq(logs[ch][i], 7, Len(logs[ch][i])) = its[i].data
            /\ Len(rp) <= Len(rd_hist[ch])
            /\ rp = SubSeq(rd_hist[ch], 1, Len(rp))

\* C5 witness: the log of UART3 holds two chunks its reader read, and the
\* other reader's chunk has been logged too
C5_Witness ==
    /\ Len(ReadPayloads(consumed, "UART3")) >= 2
    /\ Len(ReadPayloads(consumed, "UART0")) >= 1

\* the verb of a script line and its argument, comment and blanks removed
LineVerb(raw) == Lower(SplitHead(Strip(CutComment(raw))))
LineArg(raw) == SplitArg(Strip(CutComment(raw)))

\* a malformed script line: an unknown verb, a type or sleep without its
\* argument, a sleep whose argument is no number, a dtr whose argument is
\* not 0 or 1
Malformed(raw) ==
    /\ Strip(CutComment(raw)) # <<>>
    /\ \/ LineVerb(raw) \notin {<<"send">>, <<"type">>, <<"sleep">>, <<"dtr">>}
       \/ LineVerb(raw) \in {<<"type">>, <<"sleep">>} /\ LineArg(raw) = <<>>
       \/ LineVerb(raw) = <<"sleep">>
            /\ LineArg(raw) \notin {<<"0">>, <<"1">>, <<"0.5">>, <<"-1">>}
       \/ LineVerb(raw) = <<"dtr">> /\ LineArg(raw) \notin {<<"0">>, <<"1">>}

HasMalformedLine == script_text # NoScript /\ \E i \in 1..Len(script_text) : Malformed(script_text[i])

C9_SyntaxErrorBeforeAnyIO ==
    (HasMalformedLine /\ pc \in {"preflight0", "preflight3", "start_readers",
                                 "open_send", "parse"})
        => portOps = {}

\* the error messages of the send block on the sink under the tag UART3
SendMessages == SelectSeq(puts, LAMBDA it : it.name = "UART3" /\ it.data = MsgSend)

\* C10: the steps begun are 1, 2, 3, ... in file order; once the send
\* block has failed no further step is begun (the script is abandoned at
\* the failing step), the failure flag is set and exactly one message of
\* the send block is on the sink under UART3; without a failure there is none.
C10_StepsInOrderAbortOnFailure ==
    /\ executed = [i \in 1..Len(executed) |-> i]
    /\ Len(executed) <= Len(steps)
    /\ send_failed =>
         /\ pc \notin {"step", "wait"}
         /\ (executed # <<>> => executed[Len(executed)] = step_i)
         /\ Len(SendMessages) = 1
    /\ ~send_failed => Len(SendMessages) = 0

\* C10 witness: the write of the first of two steps failed and the second
\* step was not begun
C10_Witness ==
    /\ send_failed
    /\ Len(steps) = 2
    /\ executed = <<1>>
    /\ steps[1].kind = "send"
    /\ written = <<>>
    /\ pc = "consume"

\* the elements of a sequence
Range(q) == {q[i] : i \in 1..Len(q)}

\* the failures the reader of channel ch has put on the error queue
ReaderErrors(ch) ==
    {i \in 1..Len(err_q) : err_q[i] \in {<<"open", ch>>, <<"read", ch>>}}

\* the error items the reader of channel ch has put on the sink queue
ReaderErrorItems(ch) ==
    {i \in 1..Len(puts) : puts[i].name = ch /\ puts[i].src = "reader_error"}

\* C13: a reader reports at most one failure, as one entry of the error
\* queue together with one error item under its channel tag; once it has
\* reported it has terminated; a reader that is running holds its port, and
\* a reader that has terminated after opening its port has closed it (a
\* failed open leaves no handle).
C13_ReaderFailsOnce ==
    \A ch \in Channels :
        /\ Cardinality(ReaderErrors(ch)) <= 1
        /\ Cardinality(ReaderErrorItems(ch)) = Cardinality(ReaderErrors(ch))
        /\ \A i \in ReaderErrorItems(ch) : puts[i].data \in {MsgOpen, MsgRead}
        /\ ReaderErrors(ch) # {} => rd[ch] = "exited"
        /\ rd[ch] \in {"top", "reading"} =>
              /\ <<"reader", "open", ch>> \in portOps
              /\ <<"reader", "close", ch>> \notin portOps
        /\ (rd[ch] = "exited" /\ <<"open", ch>> \notin Range(err_q)) =>
              <<"reader", "close", ch>> \in portOps
        /\ <<"open", ch>> \in Range(err_q) =>
              /\ <<"reader", "read", ch>> \notin portOps
              /\ rd_hist[ch] = <<>>

\* C13 witness: one reader failed to open its port, or failed a read after
\* reading a chunk, and the run went on to its result
C13_Witness ==
    /\ pc = "done"
    /\ \E ch \in Channels :
          /\ rd[ch] = "exited"
          /\ <<"read", ch>> \in Range(err_q)
          /\ rd_hist[ch] # <<>>
          /\ <<"reader", "close", ch>> \in portOps

\* C14 as stated: a feed that raised the counter before the deadline makes
\* wait_for_next return true.
C14_FeedBeforeDeadlineReturnsTrue ==
    (w_pc = "ret" /\ w_seen) => w_found

\* C14: wait_for_next, once called, returns; it returns true only with the
\* counter above lastCount, and false only with the deadline passed; it is
\* never asleep with the counter above lastCount and the event clear (no
\* wake-up is lost); and a feed that raised the counter before the deadline
\* makes it return true whenever the waiter still has a counter check ahead
\* of its next deadline check.
C14_WaitForNextReturns ==
    /\ []((w_pc = "ret" /\ w_found) => pw_count > w_last)
    /\ []((w_pc = "ret" /\ ~w_found) => w_left <= 0)
    /\ []((w_pc = "waiting" /\ pw_count > w_last) => pw_event)
    /\ (w_pc # "idle") ~> (w_pc = "ret")
    /\ (w_seen /\ w_pc \in {"check", "waiting", "clear"})
           ~> (w_pc = "ret" /\ w_found)

\* C14 witness: a feed from the other thread raised the counter before the
\* deadline, the wait was woken, cleared the event and returned true
C14_Witness ==
    /\ w_pc = "ret"
    /\ w_found
    /\ w_seen
    /\ w_left > 0
    /\ ~pw_event

\* the chunk fed by the step
FedData == SubSeq(pw_stream', Len(pw_stream) + 1, Len(pw_stream'))

\* C15 as stated in its last part: every feed carrying the needle raises
\* the counter by one.
C15_FeedCarryingNeedleCounts ==
    [][Contains(PromptNeedle, FedData) => pw_count' = pw_count + 1]_vars

\* C15: a feed of non-empty data leaves in the buffer the old buffer followed
\* by the data, cut to its last 2048 bytes if that is longer than 4096
\* bytes, so at most 4096 bytes; it raises the counter by exactly one if the
\* needle occurs in the resulting buffer and leaves it unchanged otherwise;
\* a feed of empty data changes nothing; the counter never decreases.
C15_FeedContract ==
    [][LET b == pw_buf \o FedData
       IN  /\ FedData = <<>> => UNCHANGED <<pw_buf, pw_count, pw_event>>
           /\ FedData # <<>> =>
                /\ pw_buf' = IF Len(b) > 4096
                             THEN SubSeq(b, Len(b) - 2047, Len(b))
                             ELSE b
                /\ Len(pw_buf') <= 4096
                /\ pw_count' = pw_count
                      + (IF Contains(PromptNeedle, pw_buf') THEN 1 ELSE 0)
           /\ pw_count' >= pw_count]_vars

\* C15 witness: the buffer has overflowed and been cut, and two feeds that
\* each left the needle in the buffer have raised the counter to two
C15_Witness ==
    /\ Len(pw_stream) > BufCap
    /\ Len(pw_buf) < Len(pw_stream)
    /\ Len(pw_buf) <= BufKeep + 2
    /\ pw_count = 2
    /\ Contains(PromptNeedle, pw_buf)

\* the last byte of p, "" for the empty payload
LastOf(p) == IF p = <<>> THEN "" ELSE p[Len(p)]

\* the byte before the last byte of p, "" when there is none
BeforeLastOf(p) == IF Len(p) < 2 THEN "" ELSE p[Len(p) - 1]

\* p without its last byte
ButLast(p) == SubSeq(p, 1, Len(p) - 1)

\* C16: _ensure_trailing_crlf(p) is p + CR LF when p ends in neither CR nor
\* LF (the empty p included), p + LF when p ends in CR, p with its final LF
\* replaced by CR LF when p ends in an LF not preceded by CR, and p when p
\* ends in CR LF; the result ends in CR LF, and normalising the result gives
\* the result again.
C16_EnsureTrailingCrlf ==
    /\ Len(fn_out) >= 1 =>
         LET p == fn_in
             q == fn_out[1]
         IN  /\ LastOf(p) \notin {CR, LF} => q = p \o <<CR, LF>>
             /\ LastOf(p) = CR => q = p \o <<LF>>
             /\ (LastOf(p) = LF /\ BeforeLastOf(p) # CR)
                    => q = ButLast(p) \o <<CR, LF>>
             /\ (LastOf(p) = LF /\ BeforeLastOf(p) = CR) => q = p
             /\ Len(q) >= 2
             /\ LastOf(q) = LF
             /\ BeforeLastOf(q) = CR
    /\ Len(fn_out) >= 2 => fn_out[2] = fn_out[1]

\* C16 witness: a payload ending in a bare LF after other bytes has been
\* normalised twice
C16_Witness ==
    /\ fn_in = <<"A", LF>>
    /\ fn_out = << <<"A", CR, LF>>, <<"A", CR, LF>> >>

\* a line that holds a command once its comment is removed
Live(raw) == Strip(CutComment(raw)) # <<>>

\* a line with one of the defects a script line can have: an unknown verb,
\* a type or sleep without argument, a dtr argument other than 0 or 1
Defective(raw) ==
    /\ Live(raw)
    /\ \/ LineVerb(raw) \notin {<<"send">>, <<"type">>, <<"sleep">>, <<"dtr">>}
       \/ LineVerb(raw) \in {<<"type">>, <<"sleep">>} /\ LineArg(raw) = <<>>
       \/ LineVerb(raw) = <<"dtr">> /\ LineArg(raw) \notin {<<"0">>, <<"1">>}

\* a sleep line whose argument is not a non-negative number
OddSleep(raw) ==
    /\ Live(raw)
    /\ LineVerb(raw) = <<"sleep">>
    /\ LineArg(raw) \notin {<<>>, <<"0">>, <<"1">>, <<"0.5">>}

\* the least element of a non-empty set of numbers
Least(S) == CHOOSE i \in S : \A j \in S : i <= j

\* the step a well-formed line stands for
StepOf(raw) ==
    CASE LineVerb(raw) = <<"send">> -> ScriptStep("send", LineArg(raw), 0, FALSE)
      [] LineVerb(raw) = <<"type">> -> ScriptStep("type", LineArg(raw), 0, FALSE)
      [] LineVerb(raw) = <<"sleep">> ->
            ScriptStep("sleep", <<>>,
                       CASE LineArg(raw) = <<"1">> -> 1000
                         [] LineArg(raw) = <<"0.5">> -> 500
                         [] OTHER -> 0,
                       FALSE)
      [] OTHER -> ScriptStep("dtr", <<>>, 0, LineArg(raw) = <<"1">>)

C18_SleepArgumentChecked ==
    fn_out # <<>> =>
        LET text == fn_in
            r == fn_out[1]
            bad == {i \in 1..Len(text) : Defective(text[i])}
            odd == {i \in 1..Len(text) : OddSleep(text[i])}
        IN  (odd # {} /\ Least(odd \cup bad) \in odd) =>
                /\ ~r.ok
                /\ r.numbered
                /\ r.line = Least(odd)

\* C19: when a prompt wait has returned, found or timed out, the loop goes
\* on to the next step with the failure flag clear; a dtr step, whether its
\* set took effect or failed, is followed by the next step with the flag
\* clear; and a script that parsed and met no open or write failure ends
\* with every step executed in order and the flag clear.
C19_TimeoutAndDtrFailureGoOn ==
    /\ [][/\ (pc = "wait" /\ w_pc = "ret" /\ w_pc' # w_pc) =>
                /\ pc' = "step"
                /\ step_i' = step_i + 1
                /\ ~send_failed'
          /\ (pc = "step" /\ step_i <= Len(steps) /\ steps[step_i].kind = "dtr"
                /\ executed' # executed) =>
                /\ pc' = "step"
                /\ step_i' = step_i + 1
                /\ ~send_failed'
                /\ executed' = Append(executed, step_i)]_vars
    /\ []((pc = "consume" /\ faults = 0 /\ ParseScript(script_text).ok) =>
             /\ ~send_failed
             /\ executed = [i \in 1..Len(steps) |-> i])

\* C19 witness: the set of the dtr step failed, the send after it was
\* written, its prompt wait timed out, and the script ended with the flag
\* clear
C19_Witness ==
    /\ script_text = << <<"dtr", " ", "1">>, <<"send", " ", "A">> >>
    /\ wait_prompt
    /\ pc = "consume"
    /\ executed = <<1, 2>>
    /\ dtr_sets = <<>>
    /\ written = <<"A", CR, LF>>
    /\ ~w_found
    /\ w_left <= 0
    /\ ~send_failed

\* C20: run_case is never still accumulating the response of its case with
\* a forbidden fragment in what it has accumulated: the poll that brings the
\* fragment in ends the wait.
C20_ForbiddenFailsAtOnce ==
    (s_pc = "wait_any" /\ established /\ case_i \in 1..Len(cases)) =>
        ~ContainsAny(cases[case_i].forbid_any, strip_ansi(accum))

\* the items of the sink queue whose text is one of msgs
ErrorItems(msgs) == {i \in 1..Len(puts) : puts[i].data \in msgs}

\* C21: the send-failure flag is set exactly when a script read, parse,
\* open-for-send or write failure was reported, the error queue is non-empty
\* exactly when a preflight open failure or a reader open or read failure
\* was reported, and a main that reaches its result returns 0 when neither
\* has happened, and 1 otherwise.
C21_ResultIffNoError ==
    /\ [](/\ send_failed <=> ErrorItems({MsgSend, MsgScript}) # {}
          /\ err_q # <<>> <=> ErrorItems({MsgPreflight, MsgOpen, MsgRead}) # {}
          /\ Len(err_q) = Cardinality(ErrorItems({MsgPreflight, MsgOpen, MsgRead}))
          /\ pc = "done" => ret \in {0, 1}
          /\ pc # "done" => ret \in {-1, Raising})
    /\ [][(pc = "result" /\ pc' = "done") =>
            (ret' = 0 <=> ErrorItems({MsgSend, MsgScript, MsgPreflight,
                                      MsgOpen, MsgRead}) = {})]_vars

\* C21 witness: the script went through, a reader's read failed, and main
\* returned 1 for the error queue alone
C21_Witness ==
    /\ pc = "done"
    /\ ret = 1
    /\ ~send_failed
    /\ written # <<>>
    /\ \E ch \in Channels : err_q = << <<"read", ch>> >>

\* C22: whichever way main leaves its main flow (deadline, send failure
\* before it, exception), the stop flag is set before the readers are
\* joined; a reader at its loop head with the flag set leaves the loop, so
\* that after the flag is set it finishes at most the read it is in; a
\* reader that was started terminates once the flag is set; and a reader
\* that has terminated after opening its port has closed it.
C22_TeardownStopsReaders ==
    /\ [](pc \in {"join", "postflight", "result", "done", "raised"} => stop)
    /\ [](\A ch \in Channels :
            (rd[ch] = "exited" /\ <<"open", ch>> \notin Range(err_q))
                => <<"reader", "close", ch>> \in portOps)
    /\ [][\A ch \in Channels :
            (stop /\ rd[ch] = "top" /\ rd'[ch] # rd[ch]) => rd'[ch] = "exited"]_vars
    /\ \A ch \in Channels :
            (stop /\ rd[ch] # "unstarted") ~> (rd[ch] = "exited")

\* C22 witness: an exception left the demux loop, the flag was set, and both
\* readers have terminated and closed their ports
C22_Witness ==
    /\ pc = "raised"
    /\ stop
    /\ \A ch \in Channels :
          /\ rd[ch] = "exited"
          /\ <<"reader", "close", ch>> \in portOps

\* C23: a read of a port handle (the step that hands a reader thread the
\* bytes it has read) is made by the thread that opened the handle.
C23_HandleReadByItsOpener ==
    [][\A ch \in Channels :
          (r_chunk[ch] = <<>> /\ r_chunk'[ch] # <<>>)
              => SmokeReaderThread(ch) = SmokeHandleOpener(ch)]_vars

\* C24: a wait_for_text that returns has found the needle whenever the
\* text its drains took from the reader, put together, holds the needle.
C24_WaitForTextFindsArrivedNeedle ==
    [][(s_pc = "wait_text" /\ s_pc' # "wait_text"
          /\ Contains(wt.needles[1], strip_ansi(wt_drained')))
         => wt_found']_vars

\* what the device may send, seen through strip_ansi, in response to the
\* payload of a case
ResponseTexts(case) == {strip_ansi(reply) : reply \in DevReplies(case.payload)}

\* the needles a case is judged by
JudgedBy(case) == case.expect_any \o case.forbid_any

\* the ends of text o that are the beginning of a response to the case
OwnEnds(o, case) ==
    {own \in {SubSeq(o, k + 1, Len(o)) : k \in 0..Len(o)} :
        \E t \in ResponseTexts(case) :
            Len(own) <= Len(t) /\ own = SubSeq(t, 1, Len(own))}

\* C25: when run_case has its text and an accepted or forbidden fragment is
\* in it, the fragment is in text the device sent in response to the payload
\* of this case, never only in output of an earlier case.
C25_MatchInOwnResponse ==
    (s_pc = "case_return" /\ ContainsAny(JudgedBy(cases[case_i]), out))
        => \E own \in OwnEnds(out, cases[case_i]) :
              ContainsAny(JudgedBy(cases[case_i]), own)

\* C26: when the reconnect pulse has opened the session, so that the device
\* has sent its banner again, main does not record the step
\* "DTR reconnect -> UART3 welcome" as a failure.
C26_WelcomeStepPassesOnBanner ==
    [][(s_pc = "welcome_return" /\ s_pc' = "finally" /\ DevConnected(dtr))
         => StepWelcome \notin Range(failures')]_vars

====
